---------------------------- MODULE Spec2Model ----------------------------
(***************************************************************************)
(* A model of the food-recipe-analyzer browser client:                     *)
(*   CameraManager    src/camera.js (first class of the file)              *)
(*   GroqAPI          src/unnamed/part_000                                 *)
(*   FoodAnalyzerApp  src/unnamed/part_001                                 *)
(* Handlers run to their next await in one step (the browser runs one task *)
(* at a time, and the continuation of a settled promise runs before any    *)
(* other event handler); every await on the device or the network is a     *)
(* separate step taken by the environment.                                 *)
(***************************************************************************)
EXTENDS Integers, Sequences, FiniteSets, TLC

VARIABLES
    cam,         \* the CameraManager's fields and its <video> element
    tracks,      \* every media stream the device has handed out, by stream id
    camOps,      \* the asynchronous CameraManager calls, by call slot
    api,         \* the GroqAPI object: apiKey, recipes
    store,       \* localStorage and sessionStorage
    net,         \* the requests sent and not yet answered
    ret,         \* what the last observed call of a GroqAPI method returned or threw
    isAnalyzing, \* FoodAnalyzerApp.isAnalyzing
    ui,          \* the DOM state the controller writes
    cyc,         \* the analysis cycles (analyzeFood / handleFileUpload), by slot
    keyOps,      \* the saveApiKey invocations, by slot
    now,         \* Date.now()
    saved        \* every history item a saveToHistory call has written, newest first

camVars == <<cam, tracks, camOps>>
apiVars == <<api, store, net, ret>>
appVars == <<isAnalyzing, ui, cyc, keyOps>>
histVars == <<now, saved>>
vars == <<cam, tracks, camOps, api, store, net, ret, isAnalyzing, ui, cyc, keyOps,
          now, saved>>

(***************************************************************************)
(* Bounds of the model                                                     *)
(***************************************************************************)
\* the number of media streams the device hands out in one run
MaxStreams == 2
\* the number of CameraManager calls that can be awaiting at the same time
MaxCamOps == 1

\* the number of analysis cycles started in one run
MaxCycles == 2
\* the number of saveApiKey invocations that can be awaiting their test at the same time
MaxKeySaves == 1

CamSlots == 1..MaxCamOps
Cycles == 1..MaxCycles
KeySlots == 1..MaxKeySaves
FacingModes == {"environment", "user"}
CameraErrors == {"NotAllowedError", "NotFoundError", "NotSupportedError", "OtherError"}

\* `this.stream = null`, and the other null references of the model
NoStream == 0

(***************************************************************************)
(* CameraManager: synchronous parts                                        *)
(***************************************************************************)

\* the canvas of the page before any capture
BlankCanvas == [drawn |-> FALSE, width |-> 0, height |-> 0, fromEnabled |-> FALSE]

\* the frame size the constraints of initialize ask for (ideal 1280 x 720)
DefaultFrame == <<1280, 720>>

\* constructor: stream = null, isInitialized = false
CameraManager_new ==
    [stream |-> NoStream, isInitialized |-> FALSE,
     srcObject |-> NoStream,      \* video.srcObject
     onloadedmetadata |-> 0,      \* the call slot whose promise the handler resolves
     metaPending |-> FALSE,       \* the video has yet to fire loadedmetadata
     videoHidden |-> FALSE,       \* video.style.display = 'none'
     errorPanel |-> "",           \* the message of the 'camera-error' panel inserted last
     canvas |-> BlankCanvas,      \* the canvas: as made, or sized and drawn by a capture
     frame |-> DefaultFrame,      \* video.videoWidth, video.videoHeight of a loaded stream
     dimmed |-> FALSE]            \* video.style.opacity = '0.5'; the page starts at 1

\* stream.getTracks().forEach(track => track.stop())
StopTracks(t, s) == [t EXCEPT ![s].live = FALSE]

\* the message handleCameraError picks for an error name
CameraErrorMessage(name) ==
    CASE name = "NotAllowedError" -> "allow camera access"
      [] name = "NotFoundError" -> "no camera found"
      [] name = "NotSupportedError" -> "not supported"
      [] OTHER -> "check your camera"

\* a variant with one message for every error
handleCameraError_generic(c, name) ==
    [c EXCEPT !.videoHidden = TRUE,
              !.errorPanel = "check your camera"]

\* handleCameraError: hide the video, insert an error panel with a 'Try Again' button
handleCameraError(c, name) ==
    [c EXCEPT !.videoHidden = TRUE,
              !.errorPanel = CameraErrorMessage(name)]

\* initialize, after getUserMedia has resolved with stream s: the stream held
\* before is overwritten as it is, then the call awaits loadedmetadata
initialize_gotStream(c, s, o) ==
    [c EXCEPT !.stream = s, !.srcObject = s, !.onloadedmetadata = o,
              !.metaPending = TRUE]

\* initialize, after loadedmetadata
initialize_loaded(c) == [c EXCEPT !.isInitialized = TRUE]

\* switchCamera: newFacingMode
OppositeFacing(f) == IF f = "environment" THEN "user" ELSE "environment"

\* switchCamera, after getUserMedia has resolved with stream s
switchCamera_gotStream(c, s) ==
    [c EXCEPT !.stream = s, !.srcObject = s, !.metaPending = TRUE]

\* destroy, on the manager's fields
\* a variant that forgets isInitialized
destroy_cam_keepsInitialized(c) == [c EXCEPT !.stream = NoStream]

destroy_cam(c) == [c EXCEPT !.stream = NoStream, !.isInitialized = FALSE]

\* destroy, on the tracks
destroy_tracks(c, t) == IF c.stream # NoStream THEN StopTracks(t, c.stream) ELSE t

\* pauseStream / resumeStream: track.enabled of the held stream's video tracks
SetEnabled_everyStream(c, t, on) ==
    IF c.stream # NoStream THEN [s \in DOMAIN t |-> [t[s] EXCEPT !.enabled = on]] ELSE t

SetEnabled(c, t, on) ==
    IF c.stream # NoStream THEN [t EXCEPT ![c.stream].enabled = on] ELSE t

pauseStream(c, t) == SetEnabled(c, t, FALSE)

\* a variant that leaves the tracks as they are
resumeStream_noop(c, t) == t

resumeStream(c, t) == SetEnabled(c, t, TRUE)

\* pauseStream / resumeStream, on the video element: video.style.opacity
SetDimmed(c, on) == IF c.stream # NoStream THEN [c EXCEPT !.dimmed = on] ELSE c

pauseStream_video(c) == SetDimmed(c, TRUE)

resumeStream_video(c) == SetDimmed(c, FALSE)

\* captureImage: null before initialization, else the encoded frame of the video
captureImage(c) == IF ~c.isInitialized THEN "null" ELSE "image"

maxWidth == 1024

maxHeight == 768

\* captureImage, the size it gives the canvas for a frame of w x h: a frame
\* over the cap is scaled by its longer side; canvas.width and canvas.height
\* are integers, so the assignment drops the fraction
captureImage_size(f) ==
    LET w == f[1]
        h == f[2]
    IN  IF w > maxWidth \/ h > maxHeight
        THEN IF w > h THEN <<maxWidth, (maxWidth * h) \div w>>
                      ELSE <<(maxHeight * w) \div h, maxHeight>>
        ELSE <<w, h>>

\* a variant without the isInitialized test
captureImage_canvas_unguarded(c, t) ==
    [c EXCEPT !.canvas = [drawn |-> TRUE, width |-> captureImage_size(c.frame)[1],
                          height |-> captureImage_size(c.frame)[2],
                          fromEnabled |-> c.stream # NoStream /\ t[c.stream].enabled]]

\* captureImage, on the canvas: sized and drawn once the test has passed
captureImage_canvas(c, t) ==
    IF ~c.isInitialized THEN c
    ELSE [c EXCEPT !.canvas = [drawn |-> TRUE, width |-> captureImage_size(c.frame)[1],
                               height |-> captureImage_size(c.frame)[2],
                               \* drawImage(video): the video track as it is then
                               fromEnabled |-> c.stream # NoStream /\ t[c.stream].enabled]]

(***************************************************************************)
(* Errors (the thrown Error objects, by the parts of their message)        *)
(***************************************************************************)
Err(name, status, detail) == [name |-> name, status |-> status, detail |-> detail]

NoErr == Err("none", 0, "")

\* new Error('API key not configured')
NotConfiguredErr == Err("API key not configured", 0, "")

\* a TypeError / SyntaxError raised by the runtime, and a rejected fetch
TypeErr == Err("TypeError", 0, "")

SyntaxErr == Err("SyntaxError", 0, "")

FetchErr == Err("Failed to fetch", 0, "")

(***************************************************************************)
(* Storage: localStorage and sessionStorage                                *)
(***************************************************************************)
\* a storage is "ok", throws on every write ("quota": getItem and removeItem
\* still work), or throws on every access ("denied")
StorageModes == {"ok", "quota", "denied"}

\* the bearer tokens of the model; "null" is null, "blank" is a string of
\* white space only
NoKey == "null"

Keys == {"k1", "k2"}

IsBlank(k) == k = "blank"

\* the JSON text of a value, and JSON.parse of it; an absent item reads as null
NoItem == [present |-> FALSE, json |-> <<>>]

JSONstringify(v) == [present |-> TRUE, json |-> v]

JSONparse(text) == text.json

EmptyStore(lsMode, ssMode) ==
    [lsMode |-> lsMode, ssMode |-> ssMode,
     localKey |-> NoKey,       \* localStorage 'groq_api_key'
     localStamp |-> FALSE,     \* localStorage 'groq_api_key_timestamp' is set
     sessionKey |-> NoKey,     \* sessionStorage 'groq_api_key'
     history |-> NoItem]       \* localStorage 'analysis_history'

(***************************************************************************)
(* GroqAPI: credential                                                     *)
(***************************************************************************)
\* this.recipes: an array, or undefined once a result without recipes is stored
RecipeList(list) == [has |-> TRUE, list |-> list]

UndefinedRecipes == [has |-> FALSE, list |-> <<>>]

\* constructor
GroqAPI_new == [apiKey |-> NoKey, recipes |-> RecipeList(<<>>)]

\* setApiKey(apiKey), on storage: localStorage first, sessionStorage when that throws
setApiKey_store(st, k) ==
    IF st.lsMode = "ok" THEN [st EXCEPT !.localKey = k, !.localStamp = TRUE]
    ELSE IF st.ssMode = "ok" THEN [st EXCEPT !.sessionKey = k]
    ELSE st

\* setApiKey(apiKey), on the object
setApiKey(a, k) == [a EXCEPT !.apiKey = k]

\* getApiKey(): the key in memory, else the stored one (localStorage, then
\* sessionStorage); a storage that throws leaves null
getApiKey(a, st) ==
    IF a.apiKey # NoKey THEN a.apiKey
    ELSE IF st.lsMode = "denied" THEN NoKey
    ELSE IF st.localKey # NoKey THEN st.localKey
    ELSE IF st.ssMode = "denied" THEN NoKey
    ELSE st.sessionKey

\* getApiKey() caches what it found in this.apiKey
cacheApiKey(a, st) == [a EXCEPT !.apiKey = getApiKey(a, st)]

\* a variant that forgets .trim()
isConfigured_untrimmed(a, st) == getApiKey(a, st) # NoKey

\* isConfigured(): !!(apiKey && apiKey.trim().length > 0)
isConfigured(a, st) == getApiKey(a, st) # NoKey /\ ~IsBlank(getApiKey(a, st))

\* clearApiKey(): this.apiKey = null; localStorage.removeItem('groq_api_key')
\* (which throws when localStorage cannot be accessed)
clearApiKey(a) == [a EXCEPT !.apiKey = NoKey]

clearApiKey_store(st) == [st EXCEPT !.localKey = NoKey]

clearApiKey_throws(st) == st.lsMode = "denied"

(***************************************************************************)
(* GroqAPI: the remote calls                                               *)
(***************************************************************************)
\* response.ok
ResponseOk(status) == status >= 200 /\ status <= 299

\* an analysis result, as JSON.parse of the model's answer gives it
Analysis(food, recipes) == [foodDetected |-> food, recipes |-> recipes]

NoAnalysis == Analysis("", UndefinedRecipes)

\* a response: fetch rejected, or a status with a body. The body of an error
\* is an envelope with error.message ("message"), a JSON value without one
\* ("empty"), the JSON value null ("null") or no JSON at all ("text"); the
\* body of a success is the completion, whose content is `content`
Response(status, body, content, analysis) ==
    [fetched |-> TRUE, status |-> status, body |-> body, content |-> content,
     analysis |-> analysis]

FetchRejected ==
    [fetched |-> FALSE, status |-> 0, body |-> "", content |-> "", analysis |-> NoAnalysis]

\* an outcome of an async method: a value returned or an error thrown
Returned(v) == [ok |-> TRUE, value |-> v, err |-> NoErr]

Threw(e) == [ok |-> FALSE, value |-> NoAnalysis, err |-> e]

\* what the last call of a GroqAPI method to settle got and gave: the method,
\* the response it received (NotSent when it ended before its fetch) and
\* the value it returned or the error it threw
NotSent ==
    [fetched |-> FALSE, status |-> 0, body |-> "unsent", content |-> "", analysis |-> NoAnalysis]

Return(call, resp, out) == [call |-> call, resp |-> resp, out |-> out]

NoReturn == Return("none", NotSent, Returned(NoAnalysis))

\* errorData.error?.message || fallback, in `${label}: ${status} - ${...}`
\* (errorData is {} when the body is not JSON; a null body makes
\* errorData.error throw a TypeError)
ApiError(label, resp, fallback) ==
    IF resp.body = "null" THEN TypeErr
    ELSE Err(label, resp.status, IF resp.body = "message" THEN "envelope message" ELSE fallback)

\* analyzeFood, from the response on: the value it returns or the error it throws
analyzeFood_result(resp) ==
    IF ~resp.fetched THEN Threw(FetchErr)
    ELSE IF ~ResponseOk(resp.status) THEN Threw(ApiError("Vision API error", resp, "Unknown error"))
    ELSE IF resp.body = "text" THEN Threw(SyntaxErr)     \* response.json() rejects
    ELSE IF resp.body # "completion" THEN Threw(TypeErr) \* data.choices[0] is undefined
    ELSE IF resp.content = "text" THEN Threw(SyntaxErr)  \* JSON.parse(content) throws
    ELSE IF resp.content = "null" THEN Threw(TypeErr)    \* null.recipes
    ELSE Returned(resp.analysis)

\* a variant that assigns this.recipes whatever the response was
analyzeFood_recipes_always(a, resp) == [a EXCEPT !.recipes = resp.analysis.recipes]

\* analyzeFood, from the response on: this.recipes = analysisResult.recipes
analyzeFood_recipes(a, resp) ==
    IF analyzeFood_result(resp).ok THEN [a EXCEPT !.recipes = resp.analysis.recipes] ELSE a

\* the narration template throws a TypeError unless recipes[0..2] exist
NarrationThrows(recipes) == ~recipes.has \/ Len(recipes.list) < 3

\* the recipes of the model are numbered; these are the fields of each that
\* the narration interpolates
Recipe(r) ==
    [name |-> <<"Tomato soup", "Bruschetta", "Salsa", "Gazpacho">>[r],
     description |-> <<"a warm soup", "toast with tomato", "a fresh dip", "a cold soup">>[r],
     difficulty |-> <<"Easy", "Medium", "HARD", "easy">>[r],
     cookingTime |-> <<"30 minutes", "10 minutes", "15 minutes", "20 minutes">>[r]]

\* String.prototype.toLowerCase, on the difficulties of the model
toLowerCase(text) ==
    CASE text = "Easy" -> "easy"
      [] text = "Medium" -> "medium"
      [] text = "HARD" -> "hard"
      [] OTHER -> text

\* a variant that leaves the difficulty as the model wrote it
Narration_keepsCase(food, recipes) ==
    LET r == [i \in 1..3 |-> Recipe(recipes.list[i])]
    IN  <<"I can see ", food, ". Here are three delicious recipes", " you can make: ",
          "First, ", r[1].name, " - ", r[1].description, ". This is a ",
          r[1].difficulty, " recipe that takes about ", r[1].cookingTime, ". ",
          "Second, ", r[2].name, " - ", r[2].description, ". This ",
          r[2].difficulty, " dish takes ", r[2].cookingTime, " to prepare. ",
          "Finally, ", r[3].name, " - ", r[3].description, ". This ",
          r[3].difficulty, " recipe can be ready in ", r[3].cookingTime, ". ",
          "Choose any recipe button below to see the full instructions!">>

\* the narration text: the pieces of the template literal and the values it
\* interpolates, in their order
Narration(food, recipes) ==
    LET r == [i \in 1..3 |-> Recipe(recipes.list[i])]
    IN  <<"I can see ", food, ". Here are three delicious recipes", " you can make: ",
          "First, ", r[1].name, " - ", r[1].description, ". This is a ",
          toLowerCase(r[1].difficulty), " recipe that takes about ", r[1].cookingTime, ". ",
          "Second, ", r[2].name, " - ", r[2].description, ". This ",
          toLowerCase(r[2].difficulty), " dish takes ", r[2].cookingTime, " to prepare. ",
          "Finally, ", r[3].name, " - ", r[3].description, ". This ",
          toLowerCase(r[3].difficulty), " recipe can be ready in ", r[3].cookingTime, ". ",
          "Choose any recipe button below to see the full instructions!">>

\* generateVoiceDescription, from the response on
generateVoiceDescription_result(resp) ==
    IF ~resp.fetched THEN Threw(FetchErr)
    ELSE IF ~ResponseOk(resp.status) THEN Threw(ApiError("TTS API error", resp, "Unknown error"))
    ELSE Returned(NoAnalysis)

\* testConnection, from the response on
testConnection_result(resp) ==
    IF ~resp.fetched THEN Threw(FetchErr)
    ELSE IF ~ResponseOk(resp.status) THEN Threw(ApiError("API test failed", resp, "Invalid API key"))
    ELSE Returned(NoAnalysis)

\* a variant that counts the index from 1
getRecipe_fromOne(a, index) ==
    IF index >= 1 /\ index <= Len(a.recipes.list) THEN a.recipes.list[index] ELSE 0

\* getRecipe(index), index counted from 0: the recipe, 0 for null
getRecipe(a, index) ==
    IF index >= 0 /\ index < Len(a.recipes.list) THEN a.recipes.list[index + 1] ELSE 0

(***************************************************************************)
(* FoodAnalyzerApp: the DOM state and the methods that only write it       *)
(***************************************************************************)
\* the text and the hidden flag of the three recipe buttons before any result
NoLabels == <<0, 0, 0>>

\* the error element when it is not shown
NoError == [visible |-> FALSE, prefix |-> "", err |-> NoErr]

\* the page as FoodAnalyzerApp finds it (initializeElements)
InitialUI ==
    [loadingHidden |-> TRUE, resultsHidden |-> TRUE,
     analyzeBtnDisabled |-> FALSE, apiSetupHidden |-> FALSE,
     saveBtnDisabled |-> FALSE, switchBtnDisabled |-> FALSE,
     foodDetected |-> "", labels |-> NoLabels, btnHidden |-> {},
     audio |-> "initial",          \* audioPlayer.parentElement.style.display
     resultsOf |-> 0,              \* the cycle whose result showResults displayed last
     error |-> NoError,            \* the 'error-message' element while it is shown
     success |-> "",               \* the 'success-message' element while it is shown
     historyHidden |-> TRUE,       \* historyModal has the class 'hidden'
     historyList |-> [placeholder |-> FALSE, items |-> <<>>],  \* historyList.innerHTML
     overflowHidden |-> FALSE,     \* document.body.style.overflow = 'hidden'
     pageHidden |-> FALSE,         \* document.hidden
     uncaught |-> FALSE]           \* a handler has ended with an exception nobody caught

\* showError(message): show the message and start a 5 s timer that hides the
\* element. While the element is shown the timer of the last showError is
\* pending, so a timer can fire exactly when the element is shown
showError(u, prefix, err) ==
    [u EXCEPT !.error = [visible |-> TRUE, prefix |-> prefix, err |-> err]]

\* showSuccess(message): the same with a 3 s timer
showSuccess(u, msg) == [u EXCEPT !.success = msg]

\* a timer of showError / showSuccess fires: style.display = 'none'
hideError(u) == [u EXCEPT !.error = NoError]

hideSuccess(u) == [u EXCEPT !.success = ""]

\* showLoading()
showLoading(u) ==
    [u EXCEPT !.loadingHidden = FALSE, !.resultsHidden = TRUE,
              !.analyzeBtnDisabled = TRUE]

\* a variant that leaves the analyze button disabled
hideLoading_keepsDisabled(u) == [u EXCEPT !.loadingHidden = TRUE]

\* hideLoading(), on the page (it also resumes the camera stream)
hideLoading(u) == [u EXCEPT !.loadingHidden = TRUE, !.analyzeBtnDisabled = FALSE]

\* showApiSetup() / hideApiSetup()
showApiSetup(u) == [u EXCEPT !.apiSetupHidden = FALSE, !.analyzeBtnDisabled = TRUE]

hideApiSetup(u) == [u EXCEPT !.apiSetupHidden = TRUE, !.analyzeBtnDisabled = FALSE]

\* the recipe buttons of the page ('.recipe-btn'), counted from 1
RecipeButtons == {1, 2, 3}

\* showResults(analysis, audioBlob), up to the first statement that throws:
\* analysis.recipes[index] throws a TypeError when recipes is undefined
showResults(u, analysis, hasAudio, c) ==
    LET u1 == [hideLoading(u) EXCEPT !.foodDetected = analysis.foodDetected,
                                     !.audio = IF hasAudio THEN "block" ELSE "none"]
        list == analysis.recipes.list
    IN  IF ~analysis.recipes.has THEN u1
        ELSE [u1 EXCEPT !.labels = [i \in RecipeButtons |-> IF i <= Len(list) THEN list[i] ELSE @[i]],
                        !.btnHidden = @ \cup {i \in RecipeButtons : i > Len(list)},
                        !.resultsHidden = FALSE,
                        !.resultsOf = c]

showResults_throws(analysis) == ~analysis.recipes.has

(***************************************************************************)
(* FoodAnalyzerApp: history                                                *)
(***************************************************************************)
\* `history.slice(0, 10)`
HistoryLimit == 10

\* getHistory(): the parsed list, [] when there is none or storage throws
getHistory(st) ==
    IF st.lsMode = "denied" THEN <<>>
    ELSE IF st.history.present THEN JSONparse(st.history)
    ELSE <<>>

\* the item saveToHistory builds at time t
HistoryItem(analysis, t) ==
    [id |-> t, timestamp |-> t, foodDetected |-> analysis.foodDetected,
     recipes |-> analysis.recipes]

\* a variant that forgets the slice
Trimmed_unbounded(history, item) == <<item>> \o history

\* history.unshift(historyItem); history.slice(0, 10)
Trimmed(history, item) ==
    LET all == <<item>> \o history
    IN  SubSeq(all, 1, IF Len(all) < HistoryLimit THEN Len(all) ELSE HistoryLimit)

\* a variant that writes the new item over the history it did not read
saveToHistory_overwrites(st, analysis, t) ==
    IF st.lsMode # "ok" THEN st
    ELSE [st EXCEPT !.history = JSONstringify(<<HistoryItem(analysis, t)>>)]

\* saveToHistory(analysis): a failed write is caught and changes nothing
saveToHistory(st, analysis, t) ==
    IF st.lsMode # "ok" THEN st
    ELSE [st EXCEPT !.history =
              JSONstringify(Trimmed(getHistory(st), HistoryItem(analysis, t)))]

\* item.recipes.map(...) in showHistory throws a TypeError for an item stored
\* without recipes
showHistory_throws(st) ==
    \E i \in DOMAIN getHistory(st) : ~getHistory(st)[i].recipes.has

\* what showHistory renders of a history: the placeholder for an empty one,
\* else per item its id, the food and the names of its recipes
HistoryList(h) ==
    [placeholder |-> h = <<>>,
     items |-> [i \in DOMAIN h |-> [id |-> h[i].id, foodDetected |-> h[i].foodDetected,
                                    names |-> h[i].recipes.list]]]

\* showHistory(): an exception leaves the list and the modal as they were
showHistory(u, st) ==
    IF showHistory_throws(st) THEN [u EXCEPT !.uncaught = TRUE]
    ELSE [u EXCEPT !.historyList = HistoryList(getHistory(st)),
                   !.historyHidden = FALSE,
                   !.overflowHidden = TRUE]

hideHistory(u) == [u EXCEPT !.historyHidden = TRUE, !.overflowHidden = FALSE]

\* a variant of the search that falls back on the most recent item
Find_orFirst(h, id) ==
    IF \E i \in DOMAIN h : h[i].id = id
    THEN CHOOSE i \in DOMAIN h : h[i].id = id /\ \A j \in 1..(i - 1) : h[j].id # id
    ELSE IF h # <<>> THEN 1 ELSE 0

\* history.find(h => h.id === id): the index of the first item with the id,
\* 0 for undefined
Find(h, id) ==
    IF \E i \in DOMAIN h : h[i].id = id
    THEN CHOOSE i \in DOMAIN h : h[i].id = id /\ \A j \in 1..(i - 1) : h[j].id # id
    ELSE 0

\* loadHistoryItem(id): this.groqAPI.recipes = item.recipes
loadHistoryItem_recipes(a, st, id) ==
    LET h == getHistory(st)
    IN  IF Find(h, id) = 0 THEN a ELSE [a EXCEPT !.recipes = h[Find(h, id)].recipes]

\* loadHistoryItem(id), the page: item.recipes[index] throws a TypeError for
\* an item stored without recipes, after the modal is hidden
loadHistoryItem(u, st, id) ==
    LET h == getHistory(st)
        item == h[Find(h, id)]
        list == item.recipes.list
        u1 == [hideHistory(u) EXCEPT !.foodDetected = item.foodDetected, !.audio = "none"]
    IN  IF Find(h, id) = 0 THEN u
        ELSE IF ~item.recipes.has THEN [u1 EXCEPT !.uncaught = TRUE]
        ELSE showSuccess(
               [u1 EXCEPT !.labels = [i \in RecipeButtons |->
                                        IF i <= Len(list) THEN list[i] ELSE @[i]],
                          !.btnHidden = @ \cup {i \in RecipeButtons : i > Len(list)},
                          !.resultsHidden = FALSE,
                          !.resultsOf = 0],
               "Loaded from history!")

(***************************************************************************)
(* CameraManager: the asynchronous calls                                   *)
(***************************************************************************)
IdleOp == [pc |-> "idle", want |-> "none", prev |-> "none", caller |-> "none"]

\* a new call takes the first free slot (the slots are interchangeable)
FreeSlot(o) == camOps[o].pc = "idle" /\ \A p \in CamSlots : p < o => camOps[p].pc # "idle"

\* a stream as getUserMedia hands it out: live and enabled
NewStream(f) == [live |-> TRUE, enabled |-> TRUE, facing |-> f]

\* the facing mode getUserMedia may answer with: { exact: f } gives f or
\* rejects, { ideal: 'environment' } gives whichever camera the device has
GrantedFacing(want) == IF want = "ideal" THEN FacingModes ELSE {want}

\* the controller's code after `await this.cameraManager.initialize()` or
\* `await this.cameraManager.switchCamera()`; a direct call has none
CamContinue(u, caller, result) ==
    CASE caller = "initializeCamera" ->
           IF result THEN [u EXCEPT !.analyzeBtnDisabled = FALSE] ELSE u
      [] caller = "saveApiKey" ->      \* initializeCamera, then saveApiKey's finally
           [u EXCEPT !.analyzeBtnDisabled = IF result THEN FALSE ELSE @,
                     !.saveBtnDisabled = FALSE]
      [] caller = "switchCamera" ->
           [(IF result THEN showSuccess(u, "Camera switched successfully!")
                       ELSE showError(u, "Failed to switch camera", NoErr))
              EXCEPT !.switchBtnDisabled = FALSE]
      [] OTHER -> u

\* a call returns: its slot is free again and its caller goes on
CamReturn(o, result) ==
    /\ camOps' = [camOps EXCEPT ![o] = IdleOp]
    /\ ui' = CamContinue(ui, camOps[o].caller, result)

\* initialize(), up to `await navigator.mediaDevices.getUserMedia(constraints)`
\* (u is the page as the caller leaves it before the call)
Cam_initialize(o, caller, u) ==
    /\ FreeSlot(o)
    /\ camOps' = [camOps EXCEPT ![o] = [pc |-> "gum", want |-> "ideal",
                                        prev |-> "none", caller |-> caller]]
    /\ ui' = u
    /\ UNCHANGED <<cam, tracks>>

\* getUserMedia resolves for initialize (also the one switchCamera falls back to)
GetUserMediaResolve(o) ==
    /\ camOps[o].pc \in {"gum", "fb_gum"}
    /\ Len(tracks) < MaxStreams
    /\ \E f \in GrantedFacing(camOps[o].want) :
         /\ tracks' = Append(tracks, NewStream(f))
         /\ cam' = initialize_gotStream(cam, Len(tracks) + 1, o)
    /\ camOps' = [camOps EXCEPT ![o].pc = IF @ = "gum" THEN "meta" ELSE "fb_meta"]
    /\ UNCHANGED ui

\* getUserMedia rejects for initialize: handleCameraError, return false; a
\* switchCamera that fell back to it returns false as well
GetUserMediaReject(o) ==
    /\ camOps[o].pc \in {"gum", "fb_gum"}
    /\ \E e \in CameraErrors : cam' = handleCameraError(cam, e)
    /\ CamReturn(o, FALSE)
    /\ UNCHANGED tracks

\* the video fires loadedmetadata: the handler set last resolves its promise,
\* and the initialize awaiting that promise sets isInitialized and returns
\* true (switchCamera, which fell back to it, returns false)
LoadedMetadata ==
    /\ cam.metaPending
    /\ LET o == cam.onloadedmetadata IN
         IF o # 0 /\ camOps[o].pc \in {"meta", "fb_meta"}
         THEN /\ cam' = [initialize_loaded(cam) EXCEPT !.metaPending = FALSE,
                                                       !.onloadedmetadata = 0]
              /\ CamReturn(o, camOps[o].pc = "meta")
         ELSE /\ cam' = [cam EXCEPT !.metaPending = FALSE]
              /\ UNCHANGED <<camOps, ui>>
    /\ UNCHANGED tracks

\* switchCamera(), up to `await navigator.mediaDevices.getUserMedia(constraints)`:
\* not initialized: return false; else stop the held stream's tracks and ask
\* for the opposite facing mode. With isInitialized true and no stream held
\* the first statement throws, and the catch block falls back to initialize()
Cam_switchCamera(o, caller, u) ==
    /\ FreeSlot(o)
    /\ IF ~cam.isInitialized
       THEN /\ ui' = CamContinue(u, caller, FALSE)
            /\ UNCHANGED <<camOps, tracks>>
       ELSE IF cam.stream = NoStream
       THEN /\ camOps' = [camOps EXCEPT ![o] = [pc |-> "fb_gum", want |-> "ideal",
                                                prev |-> "none", caller |-> caller]]
            /\ ui' = u
            /\ UNCHANGED tracks
       ELSE /\ tracks' = StopTracks(tracks, cam.stream)
            /\ camOps' = [camOps EXCEPT ![o] =
                           [pc |-> "sw_gum",
                            want |-> OppositeFacing(tracks[cam.stream].facing),
                            prev |-> tracks[cam.stream].facing, caller |-> caller]]
            /\ ui' = u
    /\ UNCHANGED cam

\* getUserMedia resolves for switchCamera: hold the new stream, return true
SwitchResolve(o) ==
    /\ camOps[o].pc = "sw_gum"
    /\ Len(tracks) < MaxStreams
    /\ tracks' = Append(tracks, NewStream(camOps[o].want))
    /\ cam' = switchCamera_gotStream(cam, Len(tracks) + 1)
    /\ CamReturn(o, TRUE)

\* getUserMedia rejects for switchCamera: `await this.initialize()`
SwitchReject(o) ==
    /\ camOps[o].pc = "sw_gum"
    /\ camOps' = [camOps EXCEPT ![o].pc = "fb_gum", ![o].want = "ideal"]
    /\ UNCHANGED <<cam, tracks, ui>>

\* destroy()
Cam_destroy ==
    /\ tracks' = destroy_tracks(cam, tracks)
    /\ cam' = destroy_cam(cam)
    /\ UNCHANGED <<camOps, ui>>

\* pauseStream() / resumeStream()
Cam_pauseStream ==
    /\ tracks' = pauseStream(cam, tracks)
    /\ cam' = pauseStream_video(cam)
    /\ UNCHANGED <<camOps, ui>>

Cam_resumeStream ==
    /\ tracks' = resumeStream(cam, tracks)
    /\ cam' = resumeStream_video(cam)
    /\ UNCHANGED <<camOps, ui>>

(***************************************************************************)
(* GroqAPI: the requests a call sends                                      *)
(***************************************************************************)
Request(kind, by, slot, key, input) ==
    [kind |-> kind, by |-> by, slot |-> slot, key |-> key, input |-> input]

\* a variant that does not wait for the vision answer before asking for speech
analyzeFood_send_withSpeech(by, slot, key) ==
    {Request("vision", by, slot, key, <<>>), Request("speech", by, slot, key, <<>>)}

\* analyzeFood: one POST {base}/chat/completions with the image
analyzeFood_send(by, slot, key) == {Request("vision", by, slot, key, <<>>)}

\* a variant that asks for the vision answer a second time along with speech
generateVoiceDescription_send_again(by, slot, key, food, recipes) ==
    {Request("speech", by, slot, key, Narration(food, recipes)),
     Request("vision", by, slot, key, <<>>)}

\* generateVoiceDescription: one POST {base}/audio/speech with the narration
generateVoiceDescription_send(by, slot, key, food, recipes) ==
    {Request("speech", by, slot, key, Narration(food, recipes))}

\* testConnection: one POST {base}/chat/completions with a test message
testConnection_send(by, slot, key) == {Request("test", by, slot, key, <<>>)}

Pending(kind, by, slot) == {r \in net : r.kind = kind /\ r.by = by /\ r.slot = slot}

(***************************************************************************)
(* FoodAnalyzerApp: the analysis cycles (analyzeFood, handleFileUpload)    *)
(***************************************************************************)
IdleCycle ==
    [kind |-> "none", pc |-> "idle", analysis |-> NoAnalysis, outcome |-> "none",
     log |-> <<>>]

\* a new cycle takes the first unused slot
NextCycleSlot(c) == cyc[c].kind = "none" /\ \A d \in Cycles : d < c => cyc[d].kind # "none"

CycleDone(c, kind, analysis, outcome, log) ==
    cyc' = [cyc EXCEPT ![c] = [kind |-> kind, pc |-> "done", analysis |-> analysis,
                               outcome |-> outcome, log |-> log]]

\* new Error('Failed to capture image from camera')
CaptureErr == Err("Failed to capture image from camera", 0, "")

\* the catch and finally blocks of analyzeFood and of handleFileUpload, from
\* the page u and the tracks t the try block has reached: showError,
\* hideLoading (which resumes the stream), isAnalyzing = false
CycleFails(c, kind, u, cm, t, err, analysis, log) ==
    /\ ui' = hideLoading(showError(u, "Analysis failed", err))
    /\ tracks' = resumeStream(cm, t)
    /\ cam' = resumeStream_video(cm)
    /\ isAnalyzing' = FALSE
    /\ CycleDone(c, kind, analysis, "failed", log)

\* `await this.groqAPI.analyzeFood(imageData)`, up to its fetch; busy is the
\* value isAnalyzing has when the request is out
StartVision(c, kind, u, cm, t, busy, log) ==
    /\ api' = cacheApiKey(api, store)
    /\ IF ~isConfigured(api, store)
       THEN /\ CycleFails(c, kind, u, cm, t, NotConfiguredErr, NoAnalysis,
                          Append(log, "visionNotConfigured"))
            /\ UNCHANGED net
       ELSE /\ net' = net \cup analyzeFood_send("cycle", c, getApiKey(api, store))
            /\ ui' = u
            /\ tracks' = t
            /\ cam' = cm
            /\ isAnalyzing' = busy
            /\ cyc' = [cyc EXCEPT ![c] = [IdleCycle EXCEPT !.kind = kind, !.pc = "vision",
                                                           !.log = Append(log, "visionSent")]]

\* saveToHistory(analysis); showResults(analysis, audioBlob); and the catch
\* block when showResults throws; finally isAnalyzing = false
FinishCycle(c, analysis, hasAudio, log) ==
    /\ store' = saveToHistory(store, analysis, now)
    /\ saved' = <<HistoryItem(analysis, now)>> \o saved
    /\ IF showResults_throws(analysis)
       THEN CycleFails(c, cyc[c].kind, showResults(ui, analysis, hasAudio, c), cam, tracks,
                       TypeErr, analysis, Append(log, "showResultsThrew"))
       ELSE /\ ui' = showResults(ui, analysis, hasAudio, c)
            /\ tracks' = resumeStream(cam, tracks)
            /\ cam' = resumeStream_video(cam)
            /\ isAnalyzing' = FALSE
            /\ CycleDone(c, cyc[c].kind, analysis, "displayed", Append(log, "displayed"))

\* analyzeFood(): the click listener of the analyze button
App_analyzeFood(c) ==
    /\ ~ui.analyzeBtnDisabled
    /\ IF isAnalyzing
       THEN UNCHANGED <<api, net, isAnalyzing, ui, cyc, tracks, cam>>
       ELSE /\ NextCycleSlot(c)
            /\ LET u1 == showLoading(ui)
                   t1 == pauseStream(cam, tracks)
                   c1 == captureImage_canvas(pauseStream_video(cam), t1)
               IN  IF captureImage(cam) = "null"
                   THEN /\ CycleFails(c, "camera", u1, c1, t1, CaptureErr, NoAnalysis,
                                      <<"captureFailed">>)
                        /\ UNCHANGED <<api, net>>
                   ELSE StartVision(c, "camera", u1, c1, t1, TRUE, <<"capture">>)
    /\ UNCHANGED <<camOps, store, ret, keyOps, now, saved>>

\* 10 * 1024 * 1024
MaxUploadBytes == 10485760

\* a variant that also turns away a file of exactly the largest size
handleFileUpload_error_strict(file) ==
    IF ~file.image THEN "Please select a valid image file"
    ELSE IF file.size >= MaxUploadBytes THEN "Image is too large"
    ELSE ""

\* handleFileUpload, the two validations: the message of the error shown for a
\* file that is turned away, "" for a file that passes
handleFileUpload_error(file) ==
    IF ~file.image THEN "Please select a valid image file"
    ELSE IF file.size > MaxUploadBytes THEN "Image is too large"
    ELSE ""

\* the files a user can pick: none, or a file with a MIME type and a size
Files ==
    {[picked |-> FALSE, image |-> FALSE, size |-> 0]}
    \cup {[picked |-> TRUE, image |-> i, size |-> n] :
            i \in BOOLEAN, n \in {1, MaxUploadBytes, MaxUploadBytes + 1}}

\* handleFileUpload(event), up to `await new Promise(...)` on the FileReader
App_handleFileUpload(c, file) ==
    /\ IF ~file.picked
       THEN UNCHANGED <<isAnalyzing, ui, cyc>>
       ELSE IF handleFileUpload_error(file) # ""
       THEN /\ ui' = showError(ui, handleFileUpload_error(file), NoErr)
            /\ UNCHANGED <<isAnalyzing, cyc>>
       ELSE /\ NextCycleSlot(c)
            /\ isAnalyzing' = TRUE
            /\ ui' = showLoading(ui)
            /\ cyc' = [cyc EXCEPT ![c] = [IdleCycle EXCEPT !.kind = "upload",
                                                           !.pc = "reading"]]
    /\ UNCHANGED <<camVars, apiVars, keyOps, histVars>>

\* the FileReader is done: with the data URL the cycle calls analyzeFood; an
\* error rejects the promise and the cycle fails
FileRead(c, loaded) ==
    /\ cyc[c].pc = "reading"
    /\ IF loaded
       THEN StartVision(c, "upload", ui, cam, tracks, isAnalyzing, <<"read">>)
       ELSE /\ CycleFails(c, "upload", ui, cam, tracks, Err("undefined", 0, ""), NoAnalysis,
                          <<"readFailed">>)
            /\ UNCHANGED <<api, net>>
    /\ UNCHANGED <<camOps, store, ret, keyOps, now, saved>>

\* the vision endpoint answers a cycle: analyzeFood returns or throws; with a
\* result the cycle calls generateVoiceDescription, whose own failure before
\* its fetch (not configured, narration throws) is caught and leaves no audio
VisionAnswer(c, resp) ==
    /\ cyc[c].pc = "vision"
    /\ Pending("vision", "cycle", c) # {}
    /\ LET out == analyzeFood_result(resp)
           a1 == analyzeFood_recipes(api, resp)
           n1 == net \ Pending("vision", "cycle", c)
           log == cyc[c].log
       IN  IF ~out.ok
           THEN /\ CycleFails(c, cyc[c].kind, ui, cam, tracks, out.err, NoAnalysis,
                              Append(log, "visionFailed"))
                /\ api' = a1
                /\ net' = n1
                /\ UNCHANGED <<store, saved>>
           ELSE /\ api' = cacheApiKey(a1, store)
                /\ IF ~isConfigured(a1, store)
                   THEN /\ FinishCycle(c, out.value, FALSE,
                                       log \o <<"visionParsed", "speechNotConfigured">>)
                        /\ net' = n1
                   ELSE IF NarrationThrows(out.value.recipes)
                   THEN /\ FinishCycle(c, out.value, FALSE,
                                       log \o <<"visionParsed", "speechThrew">>)
                        /\ net' = n1
                   ELSE /\ net' = n1 \cup generateVoiceDescription_send(
                                        "cycle", c, getApiKey(a1, store),
                                        out.value.foodDetected, out.value.recipes)
                        /\ cyc' = [cyc EXCEPT ![c].pc = "speech", ![c].analysis = out.value,
                                              ![c].log = log \o <<"visionParsed", "speechSent">>]
                        /\ UNCHANGED <<store, saved, ui, cam, tracks, isAnalyzing>>
    /\ UNCHANGED <<camOps, ret, keyOps, now>>

\* the speech endpoint answers a cycle: a failure is caught and leaves no audio
SpeechAnswer(c, resp) ==
    /\ cyc[c].pc = "speech"
    /\ Pending("speech", "cycle", c) # {}
    /\ LET out == generateVoiceDescription_result(resp)
       IN  FinishCycle(c, cyc[c].analysis, out.ok,
                       Append(cyc[c].log, IF out.ok THEN "speechOk" ELSE "speechFailed"))
    /\ net' = net \ Pending("speech", "cycle", c)
    /\ UNCHANGED <<camOps, api, ret, keyOps, now>>

(***************************************************************************)
(* FoodAnalyzerApp: credential setup, camera switch, timers                *)
(***************************************************************************)
IdleKeyOp == [pc |-> "idle", key |-> NoKey]

FreeKeySlot(o) ==
    keyOps[o].pc = "idle" /\ \A p \in DOMAIN keyOps : p < o => keyOps[p].pc # "idle"

\* what the user has typed into the key field, and .trim() of it
KeyInputs == {"", "blank"} \cup Keys

Trim(v) == IF v = "blank" THEN "" ELSE v

\* the catch and finally blocks of saveApiKey: show the error, clear the key
\* (removeItem may throw out of the catch block), re-enable the button
SaveFails(u, a, st, err) ==
    /\ ui' = [showError(u, "API key test failed", err)
                EXCEPT !.saveBtnDisabled = FALSE,
                       !.uncaught = @ \/ clearApiKey_throws(st)]
    /\ api' = clearApiKey(a)
    /\ store' = IF clearApiKey_throws(st) THEN st ELSE clearApiKey_store(st)

\* saveApiKey(), up to `await this.groqAPI.testConnection()`: the click on the
\* save button, or Enter in the key field (which a disabled button does not stop)
App_saveApiKey(o, input, via) ==
    /\ ~ui.apiSetupHidden
    /\ via = "click" => ~ui.saveBtnDisabled
    /\ IF Trim(input) = ""
       THEN /\ ui' = showError(ui, "Please enter a valid API key", NoErr)
            /\ UNCHANGED <<api, store, net, keyOps>>
       ELSE LET a1 == setApiKey(api, Trim(input))
                s1 == setApiKey_store(store, Trim(input))
                u1 == [ui EXCEPT !.saveBtnDisabled = TRUE]
            IN  /\ FreeKeySlot(o)
                /\ IF ~isConfigured(a1, s1)
                   THEN /\ SaveFails(u1, a1, s1, NotConfiguredErr)
                        /\ UNCHANGED <<net, keyOps>>
                   ELSE /\ api' = a1
                        /\ store' = s1
                        /\ ui' = u1
                        /\ net' = net \cup testConnection_send("save", o, getApiKey(a1, s1))
                        /\ keyOps' = [keyOps EXCEPT ![o] = [pc |-> "test", key |-> Trim(input)]]
    /\ UNCHANGED <<camVars, ret, isAnalyzing, cyc, histVars>>

\* the endpoint answers the test of saveApiKey: on success showSuccess,
\* hideApiSetup and `await this.initializeCamera()` (camera slot s); on
\* failure the catch block
TestAnswer(o, s, resp) ==
    /\ keyOps[o].pc = "test"
    /\ Pending("test", "save", o) # {}
    /\ net' = net \ Pending("test", "save", o)
    /\ keyOps' = [keyOps EXCEPT ![o] = IdleKeyOp]
    /\ ret' = Return("testConnection", resp, testConnection_result(resp))
    /\ IF testConnection_result(resp).ok
       THEN /\ Cam_initialize(s, "saveApiKey",
                              hideApiSetup(showSuccess(ui, "API key saved successfully!")))
            /\ UNCHANGED <<api, store>>
       ELSE /\ SaveFails(ui, api, store, testConnection_result(resp).err)
            /\ UNCHANGED camVars
    /\ UNCHANGED <<isAnalyzing, cyc, histVars>>

\* switchCamera() of the controller: the click on the switch button
App_switchCamera(o) ==
    /\ ~ui.switchBtnDisabled
    /\ Cam_switchCamera(o, "switchCamera", [ui EXCEPT !.switchBtnDisabled = TRUE])
    /\ UNCHANGED <<apiVars, isAnalyzing, cyc, keyOps, histVars>>

\* a timer of showError / showSuccess fires while its element is shown
ErrorTimeout ==
    /\ ui.error.visible
    /\ ui' = hideError(ui)
    /\ UNCHANGED <<camVars, apiVars, isAnalyzing, cyc, keyOps, histVars>>

SuccessTimeout ==
    /\ ui.success # ""
    /\ ui' = hideSuccess(ui)
    /\ UNCHANGED <<camVars, apiVars, isAnalyzing, cyc, keyOps, histVars>>

(***************************************************************************)
(* The state after construction                                            *)
(***************************************************************************)
InitCamera ==
    /\ cam = CameraManager_new
    /\ tracks = <<>>
    /\ camOps = [o \in CamSlots |-> IdleOp]

InitIdle ==
    /\ net = {}
    /\ ret = NoReturn
    /\ isAnalyzing = FALSE
    /\ cyc = [c \in Cycles |-> IdleCycle]
    /\ keyOps = [o \in KeySlots |-> IdleKeyOp]
    /\ now = 0
    /\ saved = <<>>

InitRest ==
    /\ api = GroqAPI_new
    /\ store = [EmptyStore("ok", "ok") EXCEPT !.localKey = "k1", !.localStamp = TRUE]
    /\ ui = hideApiSetup(InitialUI)
    /\ InitIdle

\* what an earlier visit may have left in storage
StoredKey(k) == [EmptyStore("ok", "ok") EXCEPT !.localKey = k, !.localStamp = TRUE]

InitialStores ==
    {EmptyStore("ok", "ok"), StoredKey("k1"), StoredKey("blank"), EmptyStore("denied", "denied")}

\* the same for the analysis cycles: no key, a key, a key and a localStorage
\* that is full
CycleStores ==
    {EmptyStore("ok", "ok"), StoredKey("k1"), [StoredKey("k1") EXCEPT !.lsMode = "quota"]}

\* new FoodAnalyzerApp(): checkApiKeyAndInitialize() up to its first await:
\* with a key hideApiSetup and initializeCamera, else showApiSetup
InitApp(stores) ==
    /\ \E st \in stores :
         /\ store = st
         /\ api = cacheApiKey(GroqAPI_new, st)
         /\ IF isConfigured(GroqAPI_new, st)
            THEN /\ ui = hideApiSetup(InitialUI)
                 /\ camOps = [o \in CamSlots |->
                                IF o = 1 THEN [pc |-> "gum", want |-> "ideal", prev |-> "none",
                                               caller |-> "initializeCamera"]
                                ELSE IdleOp]
            ELSE /\ ui = showApiSetup(InitialUI)
                 /\ camOps = [o \in CamSlots |-> IdleOp]
    /\ cam = CameraManager_new
    /\ tracks = <<>>
    /\ InitIdle

(***************************************************************************)
(* SpecCamera: the CameraManager under any sequence and interleaving of    *)
(* calls of its methods                                                    *)
(***************************************************************************)
DirectInitialize(o) ==
    Cam_initialize(o, "direct", ui) /\ UNCHANGED <<apiVars, isAnalyzing, cyc, keyOps, histVars>>

DirectSwitchCamera(o) ==
    Cam_switchCamera(o, "direct", ui) /\ UNCHANGED <<apiVars, isAnalyzing, cyc, keyOps, histVars>>

DirectDestroy == Cam_destroy /\ UNCHANGED <<apiVars, isAnalyzing, cyc, keyOps, histVars>>

DirectPause == Cam_pauseStream /\ UNCHANGED <<apiVars, isAnalyzing, cyc, keyOps, histVars>>

DirectResume == Cam_resumeStream /\ UNCHANGED <<apiVars, isAnalyzing, cyc, keyOps, histVars>>

DeviceResolve(o) ==
    GetUserMediaResolve(o) /\ UNCHANGED <<apiVars, isAnalyzing, cyc, keyOps, histVars>>

DeviceReject(o) ==
    GetUserMediaReject(o) /\ UNCHANGED <<apiVars, isAnalyzing, cyc, keyOps, histVars>>

DeviceSwitchResolve(o) ==
    SwitchResolve(o) /\ UNCHANGED <<apiVars, isAnalyzing, cyc, keyOps, histVars>>

DeviceSwitchReject(o) ==
    SwitchReject(o) /\ UNCHANGED <<apiVars, isAnalyzing, cyc, keyOps, histVars>>

VideoLoadedMetadata ==
    LoadedMetadata /\ UNCHANGED <<apiVars, isAnalyzing, cyc, keyOps, histVars>>

NextCamera ==
    \/ \E o \in CamSlots : DirectInitialize(o)
    \/ \E o \in CamSlots : DirectSwitchCamera(o)
    \/ DirectDestroy
    \/ DirectPause
    \/ DirectResume
    \/ \E o \in CamSlots : DeviceResolve(o)
    \/ \E o \in CamSlots : DeviceReject(o)
    \/ \E o \in CamSlots : DeviceSwitchResolve(o)
    \/ \E o \in CamSlots : DeviceSwitchReject(o)
    \/ VideoLoadedMetadata

\* a page with a stored key, whose CameraManager is driven directly
InitCameraManager == InitCamera /\ InitRest

SpecCamera == InitCameraManager /\ [][NextCamera]_vars

(***************************************************************************)
(* SpecCapture: captureImage on cameras that deliver frames of any size    *)
(***************************************************************************)
\* the widths and heights of a frame: 1, and the values around the two caps
\* and around the largest size the constraints of initialize allow
FrameSides == {1, 2, 767, 768, 769, 1023, 1024, 1025, 1080, 1280, 1920, 2048}

Frames == {<<w, h>> : w \in FrameSides, h \in FrameSides}

\* captureImage(): the canvas; the data URL is the return value
Cam_captureImage ==
    /\ cam' = captureImage_canvas(cam, tracks)
    /\ UNCHANGED <<tracks, camOps, ui>>

DirectCapture == Cam_captureImage /\ UNCHANGED <<apiVars, isAnalyzing, cyc, keyOps, histVars>>

NextCapture ==
    \/ \E o \in CamSlots : DirectInitialize(o)
    \/ \E o \in CamSlots : DeviceResolve(o)
    \/ VideoLoadedMetadata
    \/ DirectCapture
    \/ DirectDestroy

InitCapture ==
    /\ cam \in {[CameraManager_new EXCEPT !.frame = f] : f \in Frames}
    /\ tracks = <<>>
    /\ camOps = [o \in CamSlots |-> IdleOp]
    /\ InitRest

SpecCapture == InitCapture /\ [][NextCapture]_vars

(***************************************************************************)
(* The answers of the endpoints                                            *)
(***************************************************************************)
ErrorBodies == {"message", "empty", "text", "null"}

\* the results the model may answer with
ReorderedAnalysis == Analysis("bread", RecipeList(<<3, 1, 2>>))

Analyses ==
    {Analysis("tomato", RecipeList(<<1, 2, 3>>)),
     ReorderedAnalysis,
     Analysis("tomato", RecipeList(<<1, 2>>)),
     Analysis("tomato", RecipeList(<<1, 2, 3, 4>>)),
     Analysis("tomato", UndefinedRecipes)}

VisionFailures ==
    {FetchRejected}
    \cup {Response(st, b, "", NoAnalysis) : st \in {199, 300, 401}, b \in ErrorBodies}
    \cup {Response(200, b, "", NoAnalysis) : b \in {"text", "empty"}}
    \cup {Response(200, "completion", t, NoAnalysis) : t \in {"text", "null"}}

VisionResponses ==
    VisionFailures \cup {Response(st, "completion", "object", a) : st \in {200, 299}, a \in Analyses}

SpeechResponses ==
    {FetchRejected}
    \cup {Response(st, "audio", "", NoAnalysis) : st \in {200, 299}}
    \cup {Response(st, b, "", NoAnalysis) : st \in {199, 300, 500}, b \in ErrorBodies}

TestResponses ==
    {FetchRejected}
    \cup {Response(st, "completion", "", NoAnalysis) : st \in {200, 299}}
    \cup {Response(st, b, "", NoAnalysis) : st \in {199, 300, 401}, b \in ErrorBodies}

(***************************************************************************)
(* Spec: the application from its construction, driven by its user, the    *)
(* device and the endpoints: the camera start and the analysis cycles.     *)
(* Saving a key and switching the camera are in SpecSetup.                 *)
(***************************************************************************)
\* the answers a cycle gets in Spec: one of each kind the controller tells apart
CycleVisionResponses ==
    {FetchRejected, Response(401, "message", "", NoAnalysis),
     Response(200, "completion", "text", NoAnalysis)}
    \cup {Response(200, "completion", "object", a) : a \in Analyses \ {ReorderedAnalysis}}

CycleSpeechResponses ==
    {FetchRejected, Response(200, "audio", "", NoAnalysis),
     Response(500, "empty", "", NoAnalysis)}

\* the files a cycle is offered in Spec: one of each kind the controller
\* tells apart
CycleFiles ==
    {[picked |-> FALSE, image |-> FALSE, size |-> 0],
     [picked |-> TRUE, image |-> FALSE, size |-> 1],
     [picked |-> TRUE, image |-> TRUE, size |-> MaxUploadBytes + 1],
     [picked |-> TRUE, image |-> TRUE, size |-> MaxUploadBytes]}

Next ==
    \/ \E c \in Cycles : App_analyzeFood(c)
    \/ \E c \in Cycles, file \in CycleFiles : App_handleFileUpload(c, file)
    \/ \E c \in Cycles, loaded \in BOOLEAN : FileRead(c, loaded)
    \/ \E c \in Cycles, resp \in CycleVisionResponses : VisionAnswer(c, resp)
    \/ \E c \in Cycles, resp \in CycleSpeechResponses : SpeechAnswer(c, resp)
    \/ \E o \in CamSlots : DeviceResolve(o)
    \/ \E o \in CamSlots : DeviceReject(o)
    \/ VideoLoadedMetadata
    \/ ErrorTimeout

InitCycles == InitApp(CycleStores)

Spec == InitCycles /\ [][Next]_vars

(***************************************************************************)
(* SpecUpload: the analysis cycles that start from a picked file, for      *)
(* every kind and size of file                                             *)
(***************************************************************************)
NextUpload ==
    \/ \E c \in Cycles, file \in Files : App_handleFileUpload(c, file)
    \/ \E c \in Cycles, loaded \in BOOLEAN : FileRead(c, loaded)
    \/ \E c \in Cycles, resp \in CycleVisionResponses : VisionAnswer(c, resp)
    \/ \E c \in Cycles, resp \in CycleSpeechResponses : SpeechAnswer(c, resp)
    \/ ErrorTimeout

SpecUpload == InitCycles /\ [][NextUpload]_vars

(***************************************************************************)
(* SpecSetup: the credential setup of the application: startup, saving a   *)
(* key, the connection test, starting and switching the camera             *)
(***************************************************************************)
NextSetup ==
    \/ \E o \in KeySlots, input \in KeyInputs, via \in {"click", "enter"} :
          App_saveApiKey(o, input, via)
    \/ \E o \in KeySlots, s \in CamSlots, resp \in TestResponses : TestAnswer(o, s, resp)
    \/ \E o \in CamSlots : App_switchCamera(o)
    \/ \E o \in CamSlots : DeviceResolve(o)
    \/ \E o \in CamSlots : DeviceReject(o)
    \/ \E o \in CamSlots : DeviceSwitchResolve(o)
    \/ \E o \in CamSlots : DeviceSwitchReject(o)
    \/ VideoLoadedMetadata
    \/ ErrorTimeout
    \/ SuccessTimeout

InitSetup == InitApp(InitialStores)

SpecSetup == InitSetup /\ [][NextSetup]_vars

\* the same with the timer of showError: a timer that was set does fire
SpecSetupLive == InitSetup /\ [][NextSetup]_vars /\ WF_vars(ErrorTimeout)

(***************************************************************************)
(* SpecApi: the GroqAPI object under any sequence of calls of its methods, *)
(* one remote call at a time                                               *)
(***************************************************************************)
ApiCalls == {"analyzeFood", "generateVoiceDescription", "testConnection"}

CallKind(call) ==
    IF call = "analyzeFood" THEN "vision"
    ELSE IF call = "generateVoiceDescription" THEN "speech"
    ELSE "test"

Awaiting(call) == Pending(CallKind(call), "direct", 0) # {}

\* what storage may hold when the object is made
ApiStores ==
    {[EmptyStore(ls, ss) EXCEPT !.localKey = lk, !.sessionKey = sk] :
        ls \in StorageModes, ss \in {"ok"},
        lk \in {NoKey, "blank", "k1"}, sk \in {NoKey, "k2"}}

InitApi ==
    /\ api = GroqAPI_new
    /\ store \in ApiStores
    /\ ui = InitialUI
    /\ InitCamera
    /\ InitIdle

DirectSetApiKey(k) ==
    /\ api' = setApiKey(api, k)
    /\ store' = setApiKey_store(store, k)
    /\ UNCHANGED <<net, ret, camVars, appVars, histVars>>

\* clearApiKey(): the assignment happens, then removeItem may throw
DirectClearApiKey ==
    /\ api' = clearApiKey(api)
    /\ store' = IF clearApiKey_throws(store) THEN store ELSE clearApiKey_store(store)
    /\ UNCHANGED <<net, ret, camVars, appVars, histVars>>

\* a call of analyzeFood, generateVoiceDescription or testConnection, up to
\* its fetch
DirectCall(call, analysis) ==
    /\ \A other \in ApiCalls : ~Awaiting(other)
    /\ api' = cacheApiKey(api, store)
    /\ IF ~isConfigured(api, store)
       THEN /\ ret' = Return(call, NotSent, Threw(NotConfiguredErr))
            /\ UNCHANGED net
       ELSE IF call = "generateVoiceDescription" /\ NarrationThrows(analysis.recipes)
       THEN /\ ret' = Return(call, NotSent, Threw(TypeErr))
            /\ UNCHANGED net
       ELSE /\ net' = net \cup
                    (IF call = "analyzeFood"
                     THEN analyzeFood_send("direct", 0, getApiKey(api, store))
                     ELSE IF call = "testConnection"
                     THEN testConnection_send("direct", 0, getApiKey(api, store))
                     ELSE generateVoiceDescription_send("direct", 0, getApiKey(api, store),
                                                        analysis.foodDetected, analysis.recipes))
            /\ UNCHANGED ret
    /\ UNCHANGED <<store, camVars, appVars, histVars>>

\* the endpoint answers the call that is awaiting it
DirectAnswer(call, resp) ==
    /\ Awaiting(call)
    /\ net' = net \ Pending(CallKind(call), "direct", 0)
    /\ ret' = Return(call, resp,
                     IF call = "analyzeFood" THEN analyzeFood_result(resp)
                     ELSE IF call = "testConnection" THEN testConnection_result(resp)
                     ELSE generateVoiceDescription_result(resp))
    /\ api' = IF call = "analyzeFood" THEN analyzeFood_recipes(api, resp) ELSE api
    /\ UNCHANGED <<store, camVars, appVars, histVars>>

NextApi ==
    \/ \E k \in Keys \cup {"blank"} : DirectSetApiKey(k)
    \/ DirectClearApiKey
    \/ \E call \in ApiCalls, a \in Analyses : DirectCall(call, a)
    \/ \E resp \in VisionResponses : DirectAnswer("analyzeFood", resp)
    \/ \E resp \in SpeechResponses : DirectAnswer("generateVoiceDescription", resp)
    \/ \E resp \in TestResponses : DirectAnswer("testConnection", resp)

SpecApi == InitApi /\ [][NextApi]_vars

(***************************************************************************)
(* SpecHistory: the history of the controller under any sequence of        *)
(* saveToHistory calls, the clock advancing between them or not            *)
(***************************************************************************)
\* the number of saveToHistory calls, and the last reading of Date.now()
MaxSaves == 11
MaxClock == 1

HistoryStores == {EmptyStore(ls, "ok") : ls \in StorageModes}

InitHistory ==
    /\ api = GroqAPI_new
    /\ store \in HistoryStores
    /\ ui = InitialUI
    /\ InitCamera
    /\ InitIdle

DirectSaveToHistory(analysis) ==
    /\ Len(saved) < MaxSaves
    /\ store' = saveToHistory(store, analysis, now)
    /\ saved' = <<HistoryItem(analysis, now)>> \o saved
    /\ UNCHANGED <<api, net, ret, camVars, appVars, now>>

Tick ==
    /\ now < MaxClock
    /\ now' = now + 1
    /\ UNCHANGED <<apiVars, camVars, appVars, saved>>

NextHistory ==
    \/ \E a \in {Analysis("tomato", RecipeList(<<1, 2, 3>>)), ReorderedAnalysis} :
          DirectSaveToHistory(a)
    \/ Tick

SpecHistory == InitHistory /\ [][NextHistory]_vars

(***************************************************************************)
(* SpecView: the history viewed while analysis cycles run and the clock    *)
(* advances                                                                *)
(***************************************************************************)
\* the click on the history button
App_showHistory ==
    /\ ui' = showHistory(ui, store)
    /\ UNCHANGED <<camVars, apiVars, isAnalyzing, cyc, keyOps, histVars>>

\* the click on the close button of the history modal
App_hideHistory ==
    /\ ~ui.historyHidden
    /\ ui' = hideHistory(ui)
    /\ UNCHANGED <<camVars, apiVars, isAnalyzing, cyc, keyOps, histVars>>

\* loadHistoryItem(id), for the id of a rendered item or any other
App_loadHistoryItem(id) ==
    /\ api' = loadHistoryItem_recipes(api, store, id)
    /\ ui' = loadHistoryItem(ui, store, id)
    /\ UNCHANGED <<camVars, store, net, ret, isAnalyzing, cyc, keyOps, histVars>>

\* the ids asked for: every reading of the clock, and one never stored
ViewIds == 0..(MaxClock + 1)

ViewVisionResponses ==
    {FetchRejected}
    \cup {Response(200, "completion", "object", a) :
            a \in {Analysis("tomato", RecipeList(<<1, 2, 3>>)), ReorderedAnalysis,
                   Analysis("tomato", UndefinedRecipes)}}

NextView ==
    \/ App_showHistory
    \/ App_hideHistory
    \/ \E id \in ViewIds : App_loadHistoryItem(id)
    \/ \E c \in Cycles : App_analyzeFood(c)
    \/ \E c \in Cycles, resp \in ViewVisionResponses : VisionAnswer(c, resp)
    \/ \E c \in Cycles : SpeechAnswer(c, Response(200, "audio", "", NoAnalysis))
    \/ \E o \in CamSlots : DeviceResolve(o)
    \/ VideoLoadedMetadata
    \/ Tick
    \/ SuccessTimeout

InitView == InitApp({StoredKey("k1")})

SpecView == InitView /\ [][NextView]_vars

(***************************************************************************)
(* Claims about the CameraManager (SpecCamera; C13 under Spec)             *)
(***************************************************************************)
\* the streams handed out whose tracks have not been stopped
LiveStreams == {s \in DOMAIN tracks : tracks[s].live}

\* C8: under any interleaving of initialize, switchCamera and destroy at most
\* one acquired stream has non-stopped tracks, and a stream the manager has
\* replaced or dropped has had its tracks stopped: the only stream that may
\* be live is the one the manager holds.
C8_OneActiveStream == LiveStreams \subseteq {cam.stream}

\* a switchCamera call that could not acquire the opposite facing mode returns
SwitchFailedReturns(o) ==
    /\ camOps[o].pc \in {"fb_gum", "fb_meta"}
    /\ camOps[o].prev # "none"
    /\ camOps'[o].pc = "idle"

\* C9: when switchCamera cannot acquire the opposite facing mode, then by the
\* time it returns the manager holds a live stream with the facing mode it
\* had before the switch.
C9_SwitchFallback ==
    [][\A o \in CamSlots :
         SwitchFailedReturns(o) =>
            /\ cam'.stream # NoStream
            /\ tracks'[cam'.stream].live
            /\ tracks'[cam'.stream].facing = camOps[o].prev]_vars

(***************************************************************************)
(* Claims about the analysis cycles (Spec)                                 *)
(***************************************************************************)
InFlight == {c \in Cycles : cyc[c].pc \in {"reading", "vision", "speech"}}

\* C1: at any moment at most one analysis cycle is in flight, and isAnalyzing
\* is true for the whole time any cycle is outstanding.
C1_SingleInFlight ==
    /\ Cardinality(InFlight) <= 1
    /\ InFlight # {} => isAnalyzing

Logged(c, event) == \E i \in DOMAIN cyc[c].log : cyc[c].log[i] = event

LoggedAfter(c, event) == \E i \in DOMAIN cyc'[c].log : cyc'[c].log[i] = event

SpeechFailures == {"speechNotConfigured", "speechThrew", "speechFailed"}

\* cycle c ends in this step, its vision call having succeeded and its speech
\* call having failed
EndsWithoutSpeech(c) ==
    /\ cyc[c].pc \in {"vision", "speech"}
    /\ cyc'[c].pc = "done"
    /\ \E e \in SpeechFailures : LoggedAfter(c, e)

\* C3: a cycle whose vision call succeeded and whose speech call failed still
\* ends with its result saved to history (storage working) and displayed, the
\* audio player hidden, and no error shown for it.
C3_SpeechBestEffort ==
    [][\A c \in Cycles :
         (EndsWithoutSpeech(c) /\ store.lsMode = "ok") =>
            /\ cyc'[c].outcome = "displayed"
            /\ getHistory(store') # <<>>
            /\ getHistory(store')[1] = HistoryItem(cyc'[c].analysis, now)
            /\ ~ui'.resultsHidden
            /\ ui'.resultsOf = c
            /\ ui'.foodDetected = cyc'[c].analysis.foodDetected
            /\ ui'.audio = "none"
            /\ ui'.error = ui.error]_vars

Position(c, event) == CHOOSE i \in DOMAIN cyc[c].log : cyc[c].log[i] = event

Before(c, first, second) ==
    Logged(c, second) => Logged(c, first) /\ Position(c, first) < Position(c, second)

\* C5: in a cycle the capture or file read precedes the vision request, the
\* parsed vision answer precedes the speech request, the two requests of a
\* cycle are never outstanding together, and a cycle whose vision call failed
\* sends no speech request.
C5_CycleOrdering ==
    \A c \in Cycles :
        /\ Logged(c, "visionSent") => Logged(c, "capture") \/ Logged(c, "read")
        /\ Before(c, "capture", "visionSent") \/ Before(c, "read", "visionSent")
        /\ Before(c, "visionSent", "visionParsed")
        /\ Before(c, "visionParsed", "speechSent")
        /\ Pending("vision", "cycle", c) # {} =>
              /\ Logged(c, "visionSent") /\ ~Logged(c, "visionParsed")
              /\ Pending("speech", "cycle", c) = {}
        /\ Pending("speech", "cycle", c) # {} => Logged(c, "visionParsed")
        /\ Logged(c, "visionFailed") \/ Logged(c, "visionNotConfigured") =>
              ~Logged(c, "speechSent") /\ Pending("speech", "cycle", c) = {}

\* a cycle has its speech request out
C5_Witness ==
    \E c \in Cycles : cyc[c].kind = "upload" /\ Pending("speech", "cycle", c) # {}

\* cycle c ends in this step because the capture gave no image or the vision
\* call failed
EndsBeforeResult(c) ==
    /\ cyc[c].pc # "done"
    /\ cyc'[c].pc = "done"
    /\ \E e \in {"captureFailed", "visionNotConfigured", "visionFailed"} : LoggedAfter(c, e)

\* C7: a cycle in which the capture gives no image or the vision call fails
\* ends with isAnalyzing false, the loading indicator hidden, the analyze
\* button enabled, an error message shown, and nothing of it displayed.
C7_FailureReturnsToReady ==
    [][\A c \in Cycles :
         EndsBeforeResult(c) =>
            /\ ~isAnalyzing'
            /\ ui'.loadingHidden
            /\ ~ui'.analyzeBtnDisabled
            /\ ui'.error.visible
            /\ ui'.error.prefix = "Analysis failed"
            /\ ui'.error.err # NoErr
            /\ ui'.resultsOf # c
            /\ ui.resultsHidden => ui'.resultsHidden
            /\ ui'.foodDetected = ui.foodDetected
            /\ ui'.labels = ui.labels
            /\ ui'.audio = ui.audio
            /\ store' = store]_vars

\* a camera cycle has ended on a failed vision call
C7_Witness ==
    \E c \in Cycles :
        /\ cyc[c].kind = "camera"
        /\ cyc[c].outcome = "failed"
        /\ Logged(c, "visionFailed")
        /\ ui.error.visible

(***************************************************************************)
(* Claims about the GroqAPI object (SpecApi)                               *)
(***************************************************************************)
\* C4: analyzeFood never returns a result whose recipes list is missing or
\* has a length other than 3.
C4_MalformedRejected ==
    (ret.call = "analyzeFood" /\ ret.out.ok) =>
        /\ ret.out.value.recipes.has
        /\ Len(ret.out.value.recipes.list) = 3

\* no key in memory and none in either storage, or a key that is blank
NoCredential ==
    \/ api.apiKey = NoKey /\ store.localKey = NoKey /\ store.sessionKey = NoKey
    \/ IsBlank(getApiKey(api, store))

\* a call of a remote method starts in this step
CallStarts == (\A call \in ApiCalls : ~Awaiting(call)) /\ (net' # net \/ ret' # ret)

\* C6: with no credential configured, a call of analyzeFood,
\* generateVoiceDescription or testConnection fails with 'API key not
\* configured' and sends no request.
C6_UnauthenticatedBeforeNetwork ==
    [][(NoCredential /\ CallStarts) =>
          /\ net' = net
          /\ ret'.call \in ApiCalls
          /\ ret'.out = Threw(NotConfiguredErr)]_vars

\* a call made with a blank key has failed as not configured
C6_Witness ==
    /\ IsBlank(api.apiKey)
    /\ ret.call = "generateVoiceDescription"
    /\ ret.out = Threw(NotConfiguredErr)
    /\ net = {}

(***************************************************************************)
(* Claims about the history (SpecHistory)                                  *)
(***************************************************************************)
Min(a, b) == IF a < b THEN a ELSE b

\* C2: with working storage, after n saveToHistory calls from an empty
\* history getHistory returns the min(n, 10) most recently saved results,
\* most recent first, and never more than 10.
C2_HistoryBoundAndOrder ==
    store.lsMode = "ok" =>
        /\ Len(getHistory(store)) = Min(Len(saved), 10)
        /\ getHistory(store) = SubSeq(saved, 1, Min(Len(saved), 10))

\* an eleventh result has been saved, with two different results among them
C2_Witness ==
    /\ store.lsMode = "ok"
    /\ Len(saved) = 11
    /\ saved[1] # saved[11]
    /\ saved[10] # saved[11]

(***************************************************************************)
(* Claims about the credential setup (SpecSetup)                           *)
(***************************************************************************)
\* C10: testConnection returns true only on a 2xx status; on any other status
\* it throws an error carrying the status (and the envelope message, else
\* 'Invalid API key'), which saveApiKey shows as 'API key test failed'.
C10_TestOutcome ==
    [][(ret' # ret /\ ret'.call = "testConnection") =>
          /\ ret'.out.ok => ret'.resp.fetched /\ ResponseOk(ret'.resp.status)
          /\ (ret'.resp.fetched /\ ~ResponseOk(ret'.resp.status)) =>
                /\ ~ret'.out.ok
                /\ ret'.out.err =
                      Err("API test failed", ret'.resp.status,
                          IF ret'.resp.body = "message" THEN "envelope message"
                          ELSE "Invalid API key")
                /\ ui'.error = [visible |-> TRUE, prefix |-> "API key test failed",
                                err |-> ret'.out.err]]_vars

\* a saveApiKey invocation starts its connection test in this step
TestStarts(o) == keyOps[o].pc = "idle" /\ keyOps'[o].pc = "test"

\* a saveApiKey invocation gets a failing answer to its test in this step
TestFails(o) == keyOps[o].pc = "test" /\ keyOps'[o].pc = "idle" /\ ~ret'.out.ok

\* C11: saveApiKey writes a credential to storage only after testConnection
\* has succeeded for it: starting the test writes nothing, and a failed
\* attempt leaves what storage held unchanged.
C11_ValidateBeforePersist ==
    [][\A o \in KeySlots :
         /\ TestStarts(o) => store' = store
         /\ TestFails(o) => store' = store]_vars

\* the last call to settle was analyzeFood, answered with success and a
\* content that is JSON with exactly 3 recipes
ThreeRecipesAnswered ==
    /\ ret.call = "analyzeFood"
    /\ ret.resp.fetched
    /\ ResponseOk(ret.resp.status)
    /\ ret.resp.body = "completion"
    /\ ret.resp.content = "object"
    /\ ret.resp.analysis.recipes.has
    /\ Len(ret.resp.analysis.recipes.list) = 3

\* C12: for a successful vision answer with exactly 3 recipes analyzeFood
\* returns them in the order of the answer, and afterwards getRecipe(i) gives
\* the i-th of them for i in 0..2 and null for any other index.
C12_RecipeOrderPreserved ==
    ThreeRecipesAnswered =>
        /\ ret.out.ok
        /\ ret.out.value.foodDetected = ret.resp.analysis.foodDetected
        /\ ret.out.value.recipes.list = ret.resp.analysis.recipes.list
        /\ \A i \in 0..2 : getRecipe(api, i) = ret.resp.analysis.recipes.list[i + 1]
        /\ \A i \in {-2, -1, 3, 4} : getRecipe(api, i) = 0

\* analyzeFood has returned three recipes that are not in ascending order
C12_Witness ==
    /\ ThreeRecipesAnswered
    /\ ret.resp.analysis.recipes.list = <<3, 1, 2>>
    /\ ret.resp.status = 299

(***************************************************************************)
(* Claims about the CameraManager and its controller (SpecCamera)          *)
(***************************************************************************)
\* a click on the analyze button starts cycle c in this step
CameraCycleStarts(c) == cyc[c].kind = "none" /\ cyc'[c].kind = "camera"

\* C13: while the manager is not initialized (isInitialized is true only from
\* a successful initialize to the next destroy) captureImage returns null
\* and leaves the canvas alone, and the controller ends the cycle with the
\* 'Failed to capture image' error shown and no request sent.
C13_CaptureBeforeInitialize ==
    [][~cam.isInitialized =>
          /\ captureImage(cam) = "null"
          /\ captureImage_canvas(cam, tracks) = cam
          /\ \A c \in Cycles :
               CameraCycleStarts(c) =>
                  /\ cam'.canvas = cam.canvas
                  /\ net' = net
                  /\ cyc'[c].outcome = "failed"
                  /\ ui'.error = [visible |-> TRUE, prefix |-> "Analysis failed",
                                  err |-> CaptureErr]
                  /\ ~isAnalyzing']_vars

\* a capture has failed, and the manager holds a stream whose metadata has
\* not loaded: it is still not initialized
C13_Witness ==
    /\ ~cam.isInitialized
    /\ cam.stream # NoStream /\ cam.metaPending
    /\ \E c \in Cycles : Logged(c, "captureFailed")

\* C14: destroy stops every track of the held stream, sets stream to null and
\* isInitialized to false, and a second destroy changes nothing more; this
\* holds from every state, also one in which nothing was ever initialized.
C14_DestroyIdempotent ==
    LET c1 == destroy_cam(cam)
        t1 == destroy_tracks(cam, tracks)
    IN  /\ c1.stream = NoStream
        /\ ~c1.isInitialized
        /\ cam.stream # NoStream => ~t1[cam.stream].live
        /\ \A s \in DOMAIN tracks : s # cam.stream => t1[s] = tracks[s]
        /\ destroy_cam(c1) = c1
        /\ destroy_tracks(c1, t1) = t1

\* an initialized manager has been destroyed: its stream is stopped and dropped
C14_Witness ==
    /\ cam.stream = NoStream
    /\ ~cam.isInitialized
    /\ cam.srcObject # NoStream
    /\ ~cam.metaPending
    /\ \A s \in DOMAIN tracks : ~tracks[s].live
    /\ \A o \in CamSlots : camOps[o].pc = "idle"

\* every field of the camera manager but the opacity of the video element
SameManager(c, d) == [c EXCEPT !.dimmed = FALSE] = [d EXCEPT !.dimmed = FALSE]

\* track list u differs from t at most in the enabled flag of the stream c holds
OnlyEnabledOfHeld(c, t, u) ==
    /\ DOMAIN u = DOMAIN t
    /\ \A s \in DOMAIN t :
         IF s = c.stream
         THEN [u[s] EXCEPT !.enabled = TRUE] = [t[s] EXCEPT !.enabled = TRUE]
         ELSE u[s] = t[s]

\* C15: pauseStream and resumeStream change only the enabled flag of the video
\* track of the held stream: the stream reference, isInitialized and the
\* live/stopped status of every track stay as they were, with no stream held
\* both change nothing, and resumeStream after pauseStream leaves the held
\* track enabled.
C15_PauseResumeFrame ==
    LET tp == pauseStream(cam, tracks)
        cp == pauseStream_video(cam)
        tr == resumeStream(cp, tp)
        cr == resumeStream_video(cp)
    IN  /\ SameManager(cam, cp) /\ SameManager(cam, cr)
        /\ SameManager(cam, resumeStream_video(cam))
        /\ OnlyEnabledOfHeld(cam, tracks, tp)
        /\ OnlyEnabledOfHeld(cam, tracks, tr)
        /\ OnlyEnabledOfHeld(cam, tracks, resumeStream(cam, tracks))
        /\ cam.stream = NoStream =>
             /\ tp = tracks /\ cp = cam
             /\ resumeStream(cam, tracks) = tracks /\ resumeStream_video(cam) = cam
        /\ cam.stream # NoStream =>
             /\ ~tp[cam.stream].enabled
             /\ tr[cam.stream].enabled

\* a paused camera that holds its second stream, the first one stopped
C15_Witness ==
    /\ cam.stream # NoStream
    /\ cam.isInitialized
    /\ ~tracks[cam.stream].enabled /\ tracks[cam.stream].live
    /\ \E s \in DOMAIN tracks : s # cam.stream /\ ~tracks[s].live /\ tracks[s].enabled

\* the requests of a cycle or of a key test that are on the network
Outstanding(by, slot) == {r \in net : r.by = by /\ r.slot = slot}

\* how often a cycle has done something
Times(c, event) == Cardinality({i \in DOMAIN cyc[c].log : cyc[c].log[i] = event})

C16_WitnessTest ==
    /\ net = {}
    /\ ret.call = "testConnection" /\ ~ret.out.ok
    /\ \A o \in KeySlots : keyOps[o].pc = "idle"

UploadStarts(c) == cyc[c].kind = "none" /\ cyc'[c].kind = "upload"

\* the step is a handleFileUpload of file f: it shows an error or starts an
\* upload cycle, and it is what the handler does with f
UploadOf(f) ==
    /\ ui'.error # ui.error \/ \E c \in Cycles : UploadStarts(c)
    /\ \E c \in Cycles : App_handleFileUpload(c, f)

\* C17: handleFileUpload turns away a file that is not an image or is larger
\* than 10 MB: it shows an error, sends no request and leaves isAnalyzing, the
\* loading state, the cycles and the history as they were; an image of up to
\* and including exactly 10 MB starts an analysis cycle.
C17_UploadValidation ==
    [][\A f \in Files :
         (f.picked /\ UploadOf(f)) =>
           IF ~f.image \/ f.size > MaxUploadBytes
           THEN /\ ui'.error.visible
                /\ ui'.error.prefix \in {"Please select a valid image file",
                                         "Image is too large"}
                /\ ui'.error.prefix = "Image is too large" <=> f.image
                /\ [ui' EXCEPT !.error = ui.error] = ui
                /\ isAnalyzing' = isAnalyzing
                /\ net' = net
                /\ cyc' = cyc
                /\ saved' = saved /\ store' = store
           ELSE /\ \E c \in Cycles : UploadStarts(c) /\ cyc'[c].pc = "reading"
                /\ isAnalyzing'
                /\ ~ui'.loadingHidden
                /\ net' = net]_vars

\* an upload cycle has started while an error about a rejected file is shown
C17_Witness ==
    /\ ui.error.visible
    /\ ui.error.prefix = "Image is too large"
    /\ \E c \in Cycles : cyc[c].kind = "upload" /\ cyc[c].pc = "reading"

Complete(recipes) == recipes.has /\ Len(recipes.list) = 3

\* the result the results section shows, if it shows one
Displayed == IF ui.resultsOf \in Cycles /\ ~ui.resultsHidden
             THEN {cyc[ui.resultsOf].analysis} ELSE {}

\* C18: every entry of the persisted history, and every displayed result,
\* holds exactly 3 recipes.
C18_PersistedComplete ==
    /\ \A i \in DOMAIN getHistory(store) : Complete(getHistory(store)[i].recipes)
    /\ \A a \in Displayed : Complete(a.recipes)

\* C19: when the vision endpoint answers with a status outside 200..299,
\* analyzeFood throws 'Vision API error' with that status and the message of
\* the error envelope, or 'Unknown error' when the body has none or is not
\* JSON; it returns no result and leaves the stored recipes as they were.
C19_VisionRemoteError ==
    [][(/\ ret' # ret
        /\ ret'.call = "analyzeFood"
        /\ ret'.resp.fetched
        /\ ~ResponseOk(ret'.resp.status)) =>
          /\ ~ret'.out.ok
          /\ ret'.out.value = NoAnalysis
          /\ api'.recipes = api.recipes
          /\ ret'.out.err =
                Err("Vision API error", ret'.resp.status,
                    IF ret'.resp.body = "message" THEN "envelope message"
                    ELSE "Unknown error")]_vars

(***************************************************************************)
(* Claims about viewing the history (SpecView)                             *)
(***************************************************************************)
StoredIds == {getHistory(store)[i].id : i \in DOMAIN getHistory(store)}

\* C20: showHistory and loadHistoryItem capture nothing, send no request,
\* leave isAnalyzing, the cycles, the camera and the whole of storage (so
\* the contents and the order of the persisted history) as they were; a
\* loadHistoryItem with an id that is not stored changes nothing at all.
C20_HistoryViewReadOnly ==
    [][\A id \in ViewIds :
         /\ (App_showHistory \/ App_loadHistoryItem(id)) =>
              /\ store' = store
              /\ getHistory(store') = getHistory(store)
              /\ net' = net
              /\ isAnalyzing' = isAnalyzing
              /\ cyc' = cyc
              /\ cam' = cam /\ tracks' = tracks /\ camOps' = camOps
              /\ saved' = saved
         /\ (App_loadHistoryItem(id) /\ id \notin StoredIds) => UNCHANGED vars]_vars

\* the older entry of a history of two entries with different ids was loaded
\* while the history modal was open
C20_Witness ==
    /\ ui.historyList.items # <<>>
    /\ ui.historyHidden
    /\ ui.success = "Loaded from history!"
    /\ ui.resultsOf = 0 /\ ~ui.resultsHidden
    /\ Len(getHistory(store)) = 2
    /\ getHistory(store)[1].id # getHistory(store)[2].id
    /\ api.recipes = getHistory(store)[2].recipes
    /\ api.recipes # getHistory(store)[1].recipes

(***************************************************************************)
(* Claims about the credential (SpecApi)                                   *)
(***************************************************************************)
\* storage after clearApiKey(), whose removeItem may throw
StoreAfterClear(st) == IF clearApiKey_throws(st) THEN st ELSE clearApiKey_store(st)

\* C21: after setApiKey(k) and then clearApiKey(), isConfigured() is false
\* and k is neither in memory nor in localStorage nor in sessionStorage.
C21_ClearRemovesEveryCopy ==
    \A k \in Keys :
        LET a1 == clearApiKey(setApiKey(api, k))
            s1 == StoreAfterClear(setApiKey_store(store, k))
        IN  /\ ~isConfigured(a1, s1)
            /\ a1.apiKey # k
            /\ s1.localKey # k
            /\ s1.sessionKey # k

\* C22: after setApiKey(k) for a non-blank k, getApiKey() returns k and
\* isConfigured() is true whatever storage did; when the localStorage write
\* fails and sessionStorage works, k is in sessionStorage and a new GroqAPI
\* object gets k from getApiKey().
C22_CredentialRoundTrip ==
    \A k \in Keys :
        LET a1 == setApiKey(api, k)
            s1 == setApiKey_store(store, k)
        IN  /\ getApiKey(a1, s1) = k
            /\ isConfigured(a1, s1)
            /\ (store.lsMode # "ok" /\ store.ssMode = "ok") =>
                  /\ s1.sessionKey = k
                  /\ getApiKey(GroqAPI_new, s1) = k
                  /\ isConfigured(GroqAPI_new, s1)

(***************************************************************************)
(* Claims about the camera start (SpecSetup)                               *)
(***************************************************************************)
\* an initialize call that awaited getUserMedia returns: getUserMedia rejected
InitializeFails(o) == camOps[o].pc = "gum" /\ camOps'[o].pc = "idle"

NamedCameraErrors == {"NotAllowedError", "NotFoundError", "NotSupportedError"}

\* C23: when getUserMedia rejects, initialize returns false without throwing:
\* the manager stays uninitialized with the stream it had, the video is hidden
\* and the panel with the 'Try Again' button shows a message that is different
\* for each of the three named errors and for any other; the caller continues
\* as after false (saveApiKey re-enables its button) and no exception escapes.
C23_InitializeFailureContained ==
    [][\A o \in CamSlots :
         InitializeFails(o) =>
            /\ cam'.isInitialized = cam.isInitialized
            /\ cam'.stream = cam.stream
            /\ tracks' = tracks
            /\ cam'.videoHidden
            /\ \E e \in CameraErrors : cam' = handleCameraError(cam, e)
            /\ \A e \in NamedCameraErrors, f \in CameraErrors :
                  e # f => handleCameraError(cam, e).errorPanel
                             # handleCameraError(cam, f).errorPanel
            /\ \A e \in CameraErrors : handleCameraError(cam, e).errorPanel # ""
            /\ ui' = CamContinue(ui, camOps[o].caller, FALSE)
            /\ ui'.uncaught = ui.uncaught
            /\ camOps[o].caller = "saveApiKey" => ~ui'.saveBtnDisabled
            /\ isAnalyzing' = isAnalyzing /\ net' = net /\ store' = store]_vars

\* the camera start that saveApiKey made after a successful test has failed
\* for lack of a camera, and the save button works again
C23_Witness ==
    /\ cam.errorPanel = CameraErrorMessage("NotFoundError")
    /\ cam.videoHidden
    /\ ~cam.isInitialized
    /\ ui.apiSetupHidden
    /\ ~ui.saveBtnDisabled
    /\ ~ui.uncaught
    /\ ret.call = "testConnection" /\ ret.out.ok
    /\ \A o \in CamSlots : camOps[o].pc = "idle"

\* the message of showError goes away
ErrorDismissed == ui.error.visible ~> ~ui.error.visible

\* C24: every error made visible is hidden again without any user action:
\* the message of showError, and the error panel of handleCameraError.
C24_ErrorsAutoDismiss ==
    /\ ui.error.visible ~> ~ui.error.visible
    /\ (cam.errorPanel # "") ~> (cam.errorPanel = "")

(***************************************************************************)
(* Claims about the captured image (SpecCapture)                           *)
(***************************************************************************)
Abs(n) == IF n < 0 THEN 0 - n ELSE n

\* C25: for every frame size the captured image is at most 1024 wide and 768
\* high, is no larger than the frame in either dimension, has the aspect
\* ratio of the frame up to the rounding of one side, and has the size of the
\* frame when the frame is within the cap.
C25_CaptureSizeCap ==
    cam.canvas.drawn =>
        LET w == cam.frame[1]
            h == cam.frame[2]
            cw == cam.canvas.width
            ch == cam.canvas.height
        IN  /\ cw <= 1024 /\ ch <= 768
            /\ cw <= w /\ ch <= h
            /\ Abs(cw * h - ch * w) <= (IF w > h THEN w ELSE h)
            /\ (w <= 1024 /\ h <= 768) => (cw = w /\ ch = h)

(***************************************************************************)
(* SpecLookup: the history cleared and looked up while upload cycles,      *)
(* which can overlap, append to it and the clock advances or not           *)
(***************************************************************************)
\* clearHistory(), on storage: nothing without the confirmation; removeItem
\* throws when localStorage cannot be accessed
clearHistory_store(st, confirmed) ==
    IF confirmed /\ st.lsMode # "denied" THEN [st EXCEPT !.history = NoItem] ELSE st

\* clearHistory(), on the page
clearHistory(u, st, confirmed) ==
    IF ~confirmed THEN u
    ELSE IF st.lsMode = "denied" THEN showError(u, "Failed to clear history", NoErr)
    ELSE showSuccess(hideHistory(u), "History cleared successfully!")

\* the click on the clear button and the answer to confirm(); `saved` lists
\* what was appended since the history was last removed
App_clearHistory(confirmed) ==
    /\ store' = clearHistory_store(store, confirmed)
    /\ ui' = clearHistory(ui, store, confirmed)
    /\ saved' = IF confirmed /\ store.lsMode # "denied" THEN <<>> ELSE saved
    /\ UNCHANGED <<camVars, api, net, ret, isAnalyzing, cyc, keyOps, now>>

LookupFiles == {[picked |-> TRUE, image |-> TRUE, size |-> 1]}

LookupVisionResponses ==
    {FetchRejected}
    \cup {Response(200, "completion", "object", a) :
            a \in {Analysis("tomato", RecipeList(<<1, 2, 3>>)), ReorderedAnalysis}}

NextLookup ==
    \/ \E c \in Cycles, file \in LookupFiles : App_handleFileUpload(c, file)
    \/ \E c \in Cycles : FileRead(c, TRUE)
    \/ \E c \in Cycles, resp \in LookupVisionResponses : VisionAnswer(c, resp)
    \/ \E c \in Cycles : SpeechAnswer(c, Response(200, "audio", "", NoAnalysis))
    \/ App_showHistory
    \/ \E id \in ViewIds : App_loadHistoryItem(id)
    \/ \E confirmed \in BOOLEAN : App_clearHistory(confirmed)
    \/ Tick
    \/ ErrorTimeout
    \/ SuccessTimeout

SpecLookup == InitView /\ [][NextLookup]_vars

(***************************************************************************)
(* Claims about clearing and looking up the history (SpecLookup)           *)
(***************************************************************************)
\* loadHistoryItem(id) shows the food and the recipes of the item
Shows(u, a, item) ==
    /\ u.foodDetected = item.foodDetected
    /\ ~u.resultsHidden
    /\ a.recipes = item.recipes
    /\ \A i \in RecipeButtons :
         i <= Len(item.recipes.list) => u.labels[i] = item.recipes.list[i]

\* a confirmed clearHistory leaves getHistory empty and the next
\* saveToHistory a history of one entry; a declined one leaves the history
\* as it was
ClearAll ==
    [][/\ App_clearHistory(TRUE) =>
            /\ getHistory(store') = <<>>
            /\ \A a \in Analyses : Len(getHistory(saveToHistory(store', a, now'))) = 1
       /\ App_clearHistory(FALSE) => getHistory(store') = getHistory(store)
       /\ getHistory(store) = <<>> /\ saved' # saved /\ saved' # <<>> =>
            Len(getHistory(store')) = 1]_vars

\* C26: after a confirmed clearHistory getHistory returns the empty list
\* and a later saveToHistory yields a history of one entry; a declined
\* clearHistory leaves the history unchanged; loadHistoryItem(id) for a
\* stored id displays the food description and the recipes of exactly the
\* entry that was appended with that id, whichever entry of that id it is.
C26_ClearAllAndLookup ==
    /\ ClearAll
    /\ [][\A id \in ViewIds :
            App_loadHistoryItem(id) =>
               \A i \in DOMAIN saved :
                  (saved[i].id = id /\ \E j \in DOMAIN getHistory(store) :
                                          getHistory(store)[j] = saved[i])
                  => Shows(ui', api', saved[i])]_vars

(***************************************************************************)
(* Claims about overlapping cycles and the history (Spec)                  *)
(***************************************************************************)
Stored(item) == \E i \in DOMAIN getHistory(store) : getHistory(store)[i] = item

\* C27: saveToHistory reads, extends and writes the history in one step of
\* the client, so with working storage every result of a cycle that
\* succeeded is in the history, also when cycles overlap, and the history
\* lists the results saved (up to its bound of 10) in the order of their
\* saving, most recent first.
C27_NoLostHistoryUpdate ==
    store.lsMode = "ok" =>
        /\ \A c \in Cycles :
              cyc[c].outcome = "displayed" => Stored(HistoryItem(cyc[c].analysis, now))
        /\ Len(getHistory(store)) = Min(Len(saved), HistoryLimit)
        /\ \A i \in DOMAIN getHistory(store) : getHistory(store)[i] = saved[i]

\* a camera cycle and an upload cycle with different results have both
\* succeeded; the camera cycle started first and ended last, so the upload
\* cycle ran while it was in flight
C27_Witness ==
    /\ store.lsMode = "ok"
    /\ cyc[1].kind = "camera" /\ cyc[2].kind = "upload"
    /\ cyc[1].outcome = "displayed" /\ cyc[2].outcome = "displayed"
    /\ cyc[1].analysis # cyc[2].analysis
    /\ ui.resultsOf = 1
    /\ getHistory(store) =
          <<HistoryItem(cyc[1].analysis, now), HistoryItem(cyc[2].analysis, now)>>

(***************************************************************************)
(* SpecLive: the analysis cycles when every FileReader and every remote    *)
(* call of a cycle eventually loads, resolves or rejects                   *)
(***************************************************************************)
SpecLive ==
    /\ InitCycles
    /\ [][Next]_vars
    /\ \A c \in Cycles :
         /\ WF_vars(\E loaded \in BOOLEAN : FileRead(c, loaded))
         /\ WF_vars(\E resp \in CycleVisionResponses : VisionAnswer(c, resp))
         /\ WF_vars(\E resp \in CycleSpeechResponses : SpeechAnswer(c, resp))

(***************************************************************************)
(* Claims about the busy state (SpecLive)                                  *)
(***************************************************************************)
\* the busy state of the controller
Busy == isAnalyzing /\ ~ui.loadingHidden /\ ui.analyzeBtnDisabled

\* every started cycle ends, displayed or failed, with isAnalyzing false
CyclesTerminate ==
    \A c \in Cycles :
       (cyc[c].kind # "none") ~>
          (/\ cyc[c].pc = "done"
           /\ cyc[c].outcome \in {"displayed", "failed"}
           /\ ~isAnalyzing
           /\ ui.loadingHidden)

\* C28: while a remote call of a cycle is outstanding the controller is
\* busy (isAnalyzing true, loading indicator shown, analyze button
\* disabled); and when every outstanding call eventually resolves or
\* rejects, every started cycle eventually ends displayed or ready with
\* isAnalyzing false.
C28_BusyUntilResolved ==
    /\ [](\A c \in Cycles : Outstanding("cycle", c) # {} => Busy)
    /\ CyclesTerminate

(***************************************************************************)
(* SpecNarration: generateVoiceDescription called with any result, under   *)
(* any credential, after any earlier call and with any history             *)
(***************************************************************************)
NarrationAnswers ==
    {FetchRejected, Response(200, "audio", "", NoAnalysis), Response(500, "empty", "", NoAnalysis)}

NextNarration ==
    \/ \E k \in Keys : DirectSetApiKey(k)
    \/ \E a \in Analyses : DirectCall("generateVoiceDescription", a)
    \/ \E resp \in NarrationAnswers : DirectAnswer("generateVoiceDescription", resp)
    \/ DirectSaveToHistory(ReorderedAnalysis)

SpecNarration == InitApi /\ [][NextNarration]_vars

(***************************************************************************)
(* Claims about the narration (SpecNarration)                              *)
(***************************************************************************)
\* from position p on the text gives the name, the description, the
\* lower-cased difficulty and the cooking time of the recipe
MentionsAt(text, p, recipe) ==
    /\ p + 6 <= Len(text)
    /\ text[p] = recipe.name
    /\ text[p + 2] = recipe.description
    /\ text[p + 4] = toLowerCase(recipe.difficulty)
    /\ text[p + 6] = recipe.cookingTime

\* C29: the text generateVoiceDescription sends starts with "I can see
\* <foodDetected>. Here are three delicious recipes", then mentions the
\* recipes 0, 1 and 2 in that order, each with its name, description,
\* lower-cased difficulty and cooking time; it is a function of foodDetected
\* and the first three recipes only, whatever the credential, the history
\* and the calls before.
C29_DeterministicNarration ==
    [][\A a \in Analyses :
          DirectCall("generateVoiceDescription", a) =>
             \A r \in net' \ net :
                LET text == r.input
                    l == a.recipes.list
                IN  /\ SubSeq(text, 1, 3) =
                          <<"I can see ", a.foodDetected, ". Here are three delicious recipes">>
                    /\ \E p \in DOMAIN text :
                          /\ MentionsAt(text, p, Recipe(l[1]))
                          /\ \E q \in (p + 1)..Len(text) :
                                /\ MentionsAt(text, q, Recipe(l[2]))
                                /\ \E s \in (q + 1)..Len(text) :
                                      MentionsAt(text, s, Recipe(l[3]))
                    /\ \A b \in Analyses :
                          (/\ ~NarrationThrows(b.recipes)
                           /\ b.foodDetected = a.foodDetected
                           /\ SubSeq(b.recipes.list, 1, 3) = SubSeq(l, 1, 3))
                          => text = Narration(b.foodDetected, b.recipes)]_vars

\* the narration of bread with the recipes 3, 1, 2 is on its way under the
\* credential of sessionStorage, after an earlier call was answered and
\* with a history that is not empty
C29_Witness ==
    /\ \E r \in net :
          /\ r.kind = "speech"
          /\ r.key = "k2"
          /\ r.input[2] = "bread"
          /\ r.input[6] = "Salsa"
          /\ r.input[10] = "hard"
    /\ ret.call = "generateVoiceDescription"
    /\ ret.resp.fetched
    /\ getHistory(store) # <<>>

(***************************************************************************)
(* Claims about the initialized flag (SpecCamera)                          *)
(***************************************************************************)
\* C30: in every reachable state of the CameraManager isInitialized is true
\* only if the manager holds a stream whose tracks have not been stopped,
\* so captureImage gives an image only from a live stream; during and
\* after switchCamera and whenever initialize has returned false too.
C30_InitializedMeansLive ==
    /\ cam.isInitialized => cam.stream # NoStream /\ tracks[cam.stream].live
    /\ captureImage(cam) # "null" => cam.stream \in LiveStreams

(***************************************************************************)
(* SpecKeys: saveApiKey invoked again, by Enter in the key field, while    *)
(* the test of an earlier invocation is in flight; the endpoint accepts    *)
(* one key and rejects the other                                           *)
(***************************************************************************)
\* one more invocation than SpecSetup has, so that two can overlap
SaveSlots == 1..(MaxKeySaves + 1)

\* the key the endpoint accepts, and its answer to a test with key k
ValidKey == "k1"

KeyAnswer(k) ==
    IF k = ValidKey THEN Response(200, "completion", "", NoAnalysis)
    ELSE Response(401, "message", "", NoAnalysis)

\* new FoodAnalyzerApp() without a stored key: showApiSetup
InitKeys ==
    /\ store = EmptyStore("ok", "ok")
    /\ api = cacheApiKey(GroqAPI_new, store)
    /\ ui = showApiSetup(InitialUI)
    /\ camOps = [o \in CamSlots |-> IdleOp]
    /\ cam = CameraManager_new
    /\ tracks = <<>>
    /\ net = {}
    /\ ret = NoReturn
    /\ isAnalyzing = FALSE
    /\ cyc = [c \in Cycles |-> IdleCycle]
    /\ keyOps = [o \in SaveSlots |-> IdleKeyOp]
    /\ now = 0
    /\ saved = <<>>

NextKeys ==
    \/ \E o \in SaveSlots, input \in KeyInputs, via \in {"click", "enter"} :
          App_saveApiKey(o, input, via)
    \/ \E o \in SaveSlots, s \in CamSlots : TestAnswer(o, s, KeyAnswer(keyOps[o].key))
    \/ \E o \in CamSlots : DeviceResolve(o)
    \/ \E o \in CamSlots : DeviceReject(o)
    \/ VideoLoadedMetadata
    \/ ErrorTimeout
    \/ SuccessTimeout

SpecKeys == InitKeys /\ [][NextKeys]_vars

(***************************************************************************)
(* Claims about overlapping saveApiKey invocations (SpecKeys)              *)
(***************************************************************************)
\* the controller is ready: the API setup is hidden, which only the success
\* path of saveApiKey does here, and the analyze button is enabled
Ready == ui.apiSetupHidden /\ ~ui.analyzeBtnDisabled

\* C31: whenever the controller is ready, isConfigured() is true and the
\* stored credential is one that passed testConnection, under every
\* interleaving of overlapping saveApiKey invocations.
C31_ReadyImpliesCredential ==
    Ready => /\ isConfigured(api, store)
             /\ getApiKey(api, store) = ValidKey
             /\ store.localKey = ValidKey

(***************************************************************************)
(* Claims about the recipes behind the displayed buttons (SpecView)        *)
(***************************************************************************)
\* C32: whenever results are displayed, for each button i the recipe that
\* showRecipe(i) opens (groqAPI.getRecipe(i)) is the recipe whose name
\* labels the button, and it belongs to the result whose food description
\* is shown; under every interleaving of a cycle in flight with
\* loadHistoryItem.
C32_DisplayedMatchStored ==
    ~ui.resultsHidden =>
        /\ \A i \in RecipeButtons \ ui.btnHidden : getRecipe(api, i - 1) = ui.labels[i]
        /\ \E n \in DOMAIN saved :
              /\ saved[n].foodDetected = ui.foodDetected
              /\ saved[n].recipes = api.recipes

(***************************************************************************)
(* SpecPage: camera and upload cycles while the page is hidden and shown   *)
(* again; SpecPageLive: the same when every FileReader and every remote    *)
(* call of a cycle eventually loads, resolves or rejects                   *)
(***************************************************************************)
\* the visibilitychange listener: pauseCamera() when the page has become
\* hidden, resumeCamera() when it has become visible
App_visibilitychange ==
    /\ ui' = [ui EXCEPT !.pageHidden = ~@]
    /\ tracks' = IF ~ui.pageHidden THEN pauseStream(cam, tracks) ELSE resumeStream(cam, tracks)
    /\ cam' = IF ~ui.pageHidden THEN pauseStream_video(cam) ELSE resumeStream_video(cam)
    /\ UNCHANGED <<camOps, apiVars, isAnalyzing, cyc, keyOps, histVars>>

PageVisionResponses ==
    {FetchRejected, Response(401, "message", "", NoAnalysis),
     Response(200, "completion", "text", NoAnalysis),
     Response(200, "completion", "object", Analysis("tomato", RecipeList(<<1, 2, 3>>)))}

PageSpeechResponses ==
    {Response(200, "audio", "", NoAnalysis), Response(500, "empty", "", NoAnalysis)}

\* the user clicks and picks files on a visible page only
Page_analyzeFood(c) == ~ui.pageHidden /\ App_analyzeFood(c)

Page_handleFileUpload(c, file) == ~ui.pageHidden /\ App_handleFileUpload(c, file)

NextPage ==
    \/ \E c \in Cycles : Page_analyzeFood(c)
    \/ \E c \in Cycles, file \in LookupFiles : Page_handleFileUpload(c, file)
    \/ \E c \in Cycles : FileRead(c, TRUE)
    \/ \E c \in Cycles, resp \in PageVisionResponses : VisionAnswer(c, resp)
    \/ \E c \in Cycles, resp \in PageSpeechResponses : SpeechAnswer(c, resp)
    \/ \E o \in CamSlots : DeviceResolve(o)
    \/ VideoLoadedMetadata
    \/ App_visibilitychange
    \/ ErrorTimeout

SpecPage == InitView /\ [][NextPage]_vars

SpecPageLive ==
    /\ InitView
    /\ [][NextPage]_vars
    /\ \A c \in Cycles :
         /\ WF_vars(FileRead(c, TRUE))
         /\ WF_vars(\E resp \in PageVisionResponses : VisionAnswer(c, resp))
         /\ WF_vars(\E resp \in PageSpeechResponses : SpeechAnswer(c, resp))

(***************************************************************************)
(* Claims about pausing and resuming the camera (SpecPage, SpecPageLive)   *)
(***************************************************************************)
\* the video tracks of the held stream are enabled
HeldEnabled == cam.stream # NoStream => tracks[cam.stream].enabled

\* the camera cycle c ends in this step
CameraCycleEnds(c) ==
    cyc[c].pc # "done" /\ cyc'[c].pc = "done" /\ cyc'[c].kind = "camera"

\* C33: every pauseStream of an analysis cycle is eventually followed by a
\* resumeStream: a camera cycle in flight eventually ends, and when it ends
\* (displayed, capture failed, vision failed, speech failed) with the page
\* visible the video tracks of the held stream are enabled; with no cycle
\* in flight and the page visible the tracks are never disabled.
C33_CameraAlwaysResumed ==
    /\ [][\A c \in Cycles :
            (CameraCycleEnds(c) /\ ~ui'.pageHidden) =>
               (cam'.stream # NoStream => tracks'[cam'.stream].enabled)]_vars
    /\ []((InFlight = {} /\ ~ui.pageHidden) => HeldEnabled)
    /\ \A c \in Cycles :
          (cyc[c].kind = "camera" /\ cyc[c].pc \in {"vision", "speech"})
             ~> (cyc[c].pc = "done" /\ HeldEnabled)

\* a camera cycle that had captured from a held stream has ended without
\* audio, the page is visible and the tracks of the stream are enabled
C33_Witness ==
    \E c \in Cycles :
       /\ cyc[c].kind = "camera"
       /\ cyc[c].pc = "done"
       /\ Logged(c, "capture")
       /\ Logged(c, "speechFailed")
       /\ ~ui.pageHidden
       /\ cam.stream # NoStream
       /\ tracks[cam.stream].enabled
       /\ ~cam.dimmed

\* a camera cycle is waiting for a remote call
CameraInFlight == \E c \in Cycles : cyc[c].kind = "camera" /\ cyc[c].pc \in {"vision", "speech"}

\* the held stream is the same before and after the step and was disabled
StaysHeldDisabled ==
    cam.stream # NoStream /\ cam'.stream = cam.stream /\ ~tracks[cam.stream].enabled

\* the page stays hidden and the tracks stay disabled, also when a cycle ends
HiddenKeepsOff ==
    [][/\ (ui.pageHidden /\ ui'.pageHidden /\ StaysHeldDisabled) =>
             ~tracks'[cam.stream].enabled
       /\ (~ui.pageHidden /\ ui'.pageHidden /\ cam'.stream # NoStream) =>
             ~tracks'[cam'.stream].enabled]_vars

\* hiding or showing the page does not enable the tracks a camera cycle in
\* flight has paused
CyclePauseKept ==
    [][(ui'.pageHidden # ui.pageHidden /\ CameraInFlight /\ StaysHeldDisabled) =>
          ~tracks'[cam.stream].enabled]_vars

\* C34: from the visibilitychange event that hides the page until the one
\* that shows it again the video tracks stay disabled, also when an analysis
\* or upload cycle finishes in between; and while a camera cycle is in
\* flight its paused tracks are not enabled by a hide or show of the page.
C34_HiddenKeepsCameraOff == HiddenKeepsOff /\ CyclePauseKept

\* C35: in a camera analysis cycle the frame is captured while the video
\* track is enabled, and the stream is paused only afterwards, for the
\* remote calls: the cycle that has captured and sent its request has drawn
\* the canvas from an enabled track and has left the track disabled.
C35_CaptureFromEnabledTrack ==
    [][\A c \in Cycles :
          (CameraCycleStarts(c) /\ cyc'[c].pc = "vision") =>
             /\ cam'.canvas.drawn
             /\ cam'.canvas.fromEnabled
             /\ ~tracks'[cam'.stream].enabled]_vars

\* C36: under a clock that never goes backwards the ids of every reachable
\* history are strictly decreasing from the first (most recent) entry to
\* the last, so pairwise distinct, and the lookup by id finds the entry
\* that carries it.
C36_HistoryIdsIdentify ==
    LET h == getHistory(store)
    IN  \A i, j \in DOMAIN h :
           i < j => /\ h[i].id > h[j].id
                    /\ Find(h, h[j].id) = j

\* the cycle c ends in this step
CycleEnds(c) == cyc[c].pc # "done" /\ cyc'[c].pc = "done"

====
